---------------------------- MODULE Spec2Model ----------------------------
(***************************************************************************)
(* A model of the umlaut daemon (src/service/umlaut_daemon.py): the key    *)
(* code registry, the configuration loader, the compose state machine,     *)
(* the timeout check, force release and configuration reload, together     *)
(* with the cleaning of sequence files (src/applet/umlaut_paths.py).       *)
(*                                                                         *)
(* Key names and characters are tokens (strings); a key notation such as   *)
(* "CTRL+o" is the sequence of its '+'-separated parts, <<"CTRL", "o">>.   *)
(* A text is the sequence of its characters.  Everything written to the    *)
(* virtual device is recorded, per handler run, in the variable out.       *)
(***************************************************************************)
EXTENDS Integers, Sequences, FiniteSets, TLC

(***************************************************************************)
(* Bounds of the model.                                                    *)
(***************************************************************************)
\* the clock runs from 0 to MaxTime
MaxTime == 2
\* at most this many keys are physically held at once
MaxPressed == 3

(***************************************************************************)
(* evdev key codes.                                                        *)
(***************************************************************************)
KEY_ESC == 1
KEY_TAB == 15
KEY_O == 24
KEY_LEFTCTRL == 29
KEY_A == 30
KEY_SEMICOLON == 39
KEY_APOSTROPHE == 40
KEY_LEFTSHIFT == 42
KEY_RIGHTSHIFT == 54
KEY_LEFTALT == 56
KEY_RIGHTCTRL == 97
KEY_RIGHTALT == 100
KEY_LEFTMETA == 125
KEY_RIGHTMETA == 126

\* Python's None for current_trigger / current_compose
None == 0
\* the marker for a raised ValueError in the parse functions
ValueError == -1

\* evdev.ecodes, restricted to the names the model's files use
ecodes ==
  [n \in {"KEY_ESC", "KEY_TAB", "KEY_O", "KEY_LEFTCTRL", "KEY_A",
          "KEY_SEMICOLON", "KEY_APOSTROPHE", "KEY_LEFTSHIFT",
          "KEY_RIGHTSHIFT", "KEY_LEFTALT", "KEY_RIGHTCTRL", "KEY_RIGHTALT",
          "KEY_LEFTMETA", "KEY_RIGHTMETA"} |->
     CASE n = "KEY_ESC" -> KEY_ESC
       [] n = "KEY_TAB" -> KEY_TAB
       [] n = "KEY_O" -> KEY_O
       [] n = "KEY_LEFTCTRL" -> KEY_LEFTCTRL
       [] n = "KEY_A" -> KEY_A
       [] n = "KEY_SEMICOLON" -> KEY_SEMICOLON
       [] n = "KEY_APOSTROPHE" -> KEY_APOSTROPHE
       [] n = "KEY_LEFTSHIFT" -> KEY_LEFTSHIFT
       [] n = "KEY_RIGHTSHIFT" -> KEY_RIGHTSHIFT
       [] n = "KEY_LEFTALT" -> KEY_LEFTALT
       [] n = "KEY_RIGHTCTRL" -> KEY_RIGHTCTRL
       [] n = "KEY_RIGHTALT" -> KEY_RIGHTALT
       [] n = "KEY_LEFTMETA" -> KEY_LEFTMETA
       [] n = "KEY_RIGHTMETA" -> KEY_RIGHTMETA]

\* UmlautConfig.CHAR_TO_KEY, restricted to the characters the model uses
CHAR_TO_KEY ==
  [c \in {"a", "o", ";", "'"} |->
     CASE c = "a" -> KEY_A
       [] c = "o" -> KEY_O
       [] c = ";" -> KEY_SEMICOLON
       [] c = "'" -> KEY_APOSTROPHE]

\* UmlautConfig.SHIFTED_CHARS: shifted character -> base character
SHIFTED_CHARS ==
  [c \in {"A", "O", ":"} |->
     CASE c = "A" -> "a"
       [] c = "O" -> "o"
       [] c = ":" -> ";"]

\* the one-character tokens (len(text) == 1)
SingleChars == {"a", "o", ";", "'", "A", "O", ":", "ä", "Ä", "ö", "Ö", "á", "Á", "£"}

\* the characters with ord(char) <= 127
AsciiChars == {"a", "o", ";", "'", "A", "O", ":"}

\* str.upper() of a token
Upper(t) ==
  CASE t = "a" -> "A"
    [] t = "o" -> "O"
    [] t = "ä" -> "Ä"
    [] t = "ö" -> "Ö"
    [] t = "á" -> "Á"
    [] t = "shift" -> "SHIFT"
    [] t = "ctrl" -> "CTRL"
    [] t = "alt" -> "ALT"
    [] t = "tab" -> "TAB"
    [] t = "esc" -> "ESC"
    [] OTHER -> t

\* text.upper() of a text
UpperText(s) == [i \in 1..Len(s) |-> Upper(s[i])]

\* the tokens t for which one of 'CTRL', 'ALT', 'SHIFT', 'META' is a
\* substring of t.upper()
ModSubstring ==
  {"CTRL", "ALT", "SHIFT", "META", "ALTGR",
   "KEY_LEFTCTRL", "KEY_RIGHTCTRL", "KEY_LEFTALT", "KEY_RIGHTALT",
   "KEY_LEFTSHIFT", "KEY_RIGHTSHIFT", "KEY_LEFTMETA", "KEY_RIGHTMETA"}

\* name.startswith('KEY_')
StartsWithKEY(t) ==
  t \in DOMAIN ecodes \cup {"KEY_NOSUCH", "KEY_"}

\* _key_name_to_code
KeyNameToCode(key_name) ==
  LET name == IF StartsWithKEY(key_name) THEN key_name
              ELSE CASE Upper(key_name) = "TAB" -> "KEY_TAB"
                     [] Upper(key_name) = "ESC" -> "KEY_ESC"
                     [] Upper(key_name) = "A" -> "KEY_A"
                     [] Upper(key_name) = "O" -> "KEY_O"
                     [] OTHER -> "KEY_NOSUCH"
  IN IF name \in DOMAIN ecodes THEN ecodes[name] ELSE ValueError

\* _char_or_key_to_code
CharOrKeyToCode(text) ==
  LET u == Upper(text)
  IN CASE u = "CTRL" -> KEY_LEFTCTRL
       [] u = "ALT" -> KEY_LEFTALT
       [] u = "ALTGR" -> KEY_RIGHTALT
       [] u = "SHIFT" -> KEY_LEFTSHIFT
       [] u \in {"META", "SUPER"} -> KEY_LEFTMETA
       [] OTHER ->
            IF text \in SingleChars /\ text \in DOMAIN CHAR_TO_KEY
            THEN CHAR_TO_KEY[text]
            ELSE KeyNameToCode(text)

\* a parse result that stands for a raised ValueError
Raised(codes) == \E i \in 1..Len(codes) : codes[i] = ValueError

\* _parse_target_key, on the '+'-separated parts of the notation
ParseTargetKey(target) ==
  IF Len(target) > 1 /\ \E i \in 1..Len(target) : Upper(target[i]) \in ModSubstring
  THEN [i \in 1..Len(target) |-> CharOrKeyToCode(target[i])]
  ELSE IF Len(target) = 1 /\ target[1] \in SingleChars
  THEN IF target[1] \in DOMAIN SHIFTED_CHARS
       THEN <<KEY_LEFTSHIFT, CHAR_TO_KEY[SHIFTED_CHARS[target[1]]]>>
       ELSE IF target[1] \in DOMAIN CHAR_TO_KEY
       THEN <<CHAR_TO_KEY[target[1]]>>
       ELSE <<ValueError>>
  ELSE IF Len(target) = 1
  THEN <<KeyNameToCode(target[1])>>
  ELSE <<ValueError>>


(***************************************************************************)
(* Files on disk.  A settings file and the sequence files are given by     *)
(* their parsed JSON; status tells what opening and parsing the file does.  *)
(***************************************************************************)
\* a JSON string used as an output definition
JStr(text) == [kind |-> "str", text |-> text]
\* a JSON list used as an output definition: [item, ...]
JList(items) == [kind |-> "list", items |-> items]
\* {"key": name, "modifiers": [name, ...]}
JKey(key, modifiers) == [kind |-> "key", key |-> key, modifiers |-> modifiers]
\* {"string": text}
JString(text) == [kind |-> "string", text |-> text]
\* a JSON object with neither 'key' nor 'string'
JObject == [kind |-> "object"]
\* a JSON number
JNumber == [kind |-> "number"]

\* sequences[compose_name] = { target_name: output, ... }
JTargets(name, targets) ==
  [name |-> name, kind |-> "dict", alias |-> <<>>, targets |-> targets]
\* sequences[compose_name] = "other compose name"
JAlias(name, ref) ==
  [name |-> name, kind |-> "alias", alias |-> ref, targets |-> <<>>]
\* sequences[compose_name] = a number, a list, ...
JOther(name) ==
  [name |-> name, kind |-> "other", alias |-> <<>>, targets |-> <<>>]
\* one target of a targets object
JTarget(name, output) == [name |-> name, output |-> output]

\* Limits of _parse_output
MAX_OUTPUT_LENGTH == 10000
MAX_SEQUENCE_DEPTH == 10

\* OutputAction(action_type='string', data=text)
StringAction(text) == [action_type |-> "string", text |-> text]
\* OutputAction(action_type='key', data=key_code)
KeyAction(key_code) == [action_type |-> "key", plain |-> TRUE, key |-> key_code,
                        modifiers |-> <<>>]
\* OutputAction(action_type='key', data={'key': ..., 'modifiers': [...]})
KeyModAction(key_code, modifiers) ==
  [action_type |-> "key", plain |-> FALSE, key |-> key_code,
   modifiers |-> modifiers]
\* OutputAction(action_type='sequence', data=actions)
SequenceAction(actions) == [action_type |-> "sequence", actions |-> actions]

\* item.startswith('KEY_') for a string item of a list
ItemIsKeyName(item) == Len(item.text) = 1 /\ StartsWithKEY(item.text[1])

\* _parse_output on a dict: whether it raises ValueError, and the action
ParseDictRaises(output_def) ==
  IF output_def.kind = "key"
  THEN \/ KeyNameToCode(output_def.key) = ValueError
       \/ \E i \in 1..Len(output_def.modifiers) :
            KeyNameToCode(output_def.modifiers[i]) = ValueError
  ELSE output_def.kind # "string"
ParseDict(output_def) ==
  IF output_def.kind = "key"
  THEN KeyModAction(KeyNameToCode(output_def.key),
                    [i \in 1..Len(output_def.modifiers) |->
                       KeyNameToCode(output_def.modifiers[i])])
  ELSE StringAction(output_def.text)

\* the loop over the items of a list: strings and dicts give an action,
\* an item of another type is passed over
ItemRaises(item) ==
  \/ item.kind = "str" /\ ItemIsKeyName(item)
     /\ KeyNameToCode(item.text[1]) = ValueError
  \/ item.kind \in {"key", "string", "object"} /\ ParseDictRaises(item)
RECURSIVE ItemActions(_)
ItemActions(items) ==
  IF items = <<>> THEN <<>>
  ELSE LET item == Head(items)
       IN (IF item.kind = "str"
           THEN IF ItemIsKeyName(item)
                THEN <<KeyAction(KeyNameToCode(item.text[1]))>>
                ELSE <<StringAction(item.text)>>
           ELSE IF item.kind \in {"key", "string", "object"}
           THEN <<ParseDict(item)>>
           ELSE <<>>)
          \o ItemActions(Tail(items))

\* _parse_output: whether it raises ValueError, and the OutputAction it
\* returns when it does not
ParseOutputRaises(output_def) ==
  CASE output_def.kind = "str" -> Len(output_def.text) > MAX_OUTPUT_LENGTH
    [] output_def.kind = "list" ->
         \/ Len(output_def.items) > MAX_SEQUENCE_DEPTH
         \/ \E i \in 1..Len(output_def.items) : ItemRaises(output_def.items[i])
    [] output_def.kind \in {"key", "string", "object"} ->
         ParseDictRaises(output_def)
    [] OTHER -> TRUE
ParseOutput(output_def) ==
  CASE output_def.kind = "str" -> StringAction(output_def.text)
    [] output_def.kind = "list" -> SequenceAction(ItemActions(output_def.items))
    [] OTHER -> ParseDict(output_def)

\* the empty dict
EmptyTable == [x \in {} |-> x]

\* self.sequences[k] = v
Put(table, k, v) ==
  [x \in DOMAIN table \cup {k} |-> IF x = k THEN v ELSE table[x]]

\* KeySequence(...)
KeySequence(mod_key, compose_key, compose_shifted, target_keys, output) ==
  [modifier_keys |-> <<mod_key>>, compose_key |-> compose_key,
   compose_shifted |-> compose_shifted, target_keys |-> target_keys,
   output |-> output]

\* lookup_key = (mod_key, compose_shifted, compose_key_code, *target_keys)
LookupKey(mod_key, compose_shifted, compose_key, target_keys) ==
  <<mod_key, compose_shifted, compose_key>> \o target_keys

\* for mod_key in self.trigger_keys_list: self.sequences[lookup_key] = ...
RECURSIVE AddForTriggers(_, _, _, _, _, _, _)
AddForTriggers(table, trigs, i, shifted, ccode, tkeys, action) ==
  IF i > Len(trigs) THEN table
  ELSE AddForTriggers(
         Put(table, LookupKey(trigs[i], shifted, ccode, tkeys),
             KeySequence(trigs[i], ccode, shifted, tkeys, action)),
         trigs, i + 1, shifted, ccode, tkeys, action)

\* for target_name, output_def in targets.items(): ... (a ValueError skips
\* the target)
RECURSIVE AddTargets(_, _, _, _, _, _)
AddTargets(table, trigs, shifted, ccode, targets, i) ==
  IF i > Len(targets) THEN table
  ELSE LET tkeys == ParseTargetKey(targets[i].name)
           bad == Raised(tkeys) \/ ParseOutputRaises(targets[i].output)
           next == IF bad THEN table
                   ELSE AddForTriggers(table, trigs, 1, shifted, ccode, tkeys,
                                       ParseOutput(targets[i].output))
       IN AddTargets(next, trigs, shifted, ccode, targets, i + 1)

\* compose_key_name.upper().startswith('SHIFT+')
HasShiftPrefix(name) == Len(name) > 1 /\ Upper(name[1]) = "SHIFT"

\* the body of the loop over sequences_def.items(), given the targets object
\* of the entry (a ValueError of the compose key skips the whole group)
AddComposeGroup(table, trigs, name, targets) ==
  LET shifted == HasShiftPrefix(name)
      stripped == IF shifted THEN Tail(name) ELSE name
      compose_key == ParseTargetKey(stripped)
  IN IF Raised(compose_key) THEN table
     ELSE AddTargets(table, trigs, shifted, compose_key[1], targets, 1)

\* the names of a list of entries
EntryNames(entries) == {entries[i].name : i \in 1..Len(entries)}
\* sequences_def.get(name)
EntryNamed(entries, name) ==
  entries[CHOOSE i \in 1..Len(entries) : entries[i].name = name]

\* umlaut_paths.load_sequence_config: the targets objects, cleaned
RECURSIVE CleanTargets(_)
CleanTargets(targets) ==
  IF targets = <<>> THEN <<>>
  ELSE (IF Head(targets).output.kind = "str" THEN <<Head(targets)>> ELSE <<>>)
       \o CleanTargets(Tail(targets))

RECURSIVE CleanDicts(_)
CleanDicts(raw) ==
  IF raw = <<>> THEN <<>>
  ELSE LET en == Head(raw)
           ct == CleanTargets(en.targets)
       IN (IF en.kind = "dict" /\ ct # <<>>
           THEN <<JTargets(en.name, ct)>> ELSE <<>>)
          \o CleanDicts(Tail(raw))

\* for compose_key, ref in aliases.items(): if ref in clean_seqs: keep
RECURSIVE CleanAliases(_, _)
CleanAliases(raw, clean) ==
  IF raw = <<>> THEN clean
  ELSE LET en == Head(raw)
       IN CleanAliases(Tail(raw),
            IF en.kind = "alias" /\ en.alias \in EntryNames(clean)
            THEN Append(clean, en) ELSE clean)

\* umlaut_paths.load_sequence_config: cleaned['sequences'], or None
LoadSequenceConfigIsNone(file) == file.status \in {"missing", "badjson", "notdict"}
LoadSequenceConfig(file) == CleanAliases(file.sequences, CleanDicts(file.sequences))

\* _load_sequence_file: the loop over the cleaned entries
RECURSIVE AddEntries(_, _, _, _)
AddEntries(table, trigs, sequences_def, i) ==
  IF i > Len(sequences_def) THEN table
  ELSE LET en == sequences_def[i]
           isAlias == en.kind = "alias"
           resolved == isAlias /\ en.alias \in EntryNames(sequences_def)
                       /\ EntryNamed(sequences_def, en.alias).kind = "dict"
           next == IF isAlias /\ ~resolved THEN table
                   ELSE AddComposeGroup(table, trigs, en.name,
                          IF isAlias
                          THEN EntryNamed(sequences_def, en.alias).targets
                          ELSE en.targets)
       IN AddEntries(next, trigs, sequences_def, i + 1)

\* _load_single_config(config_path, is_system=False): the loop over
\* sequences_def.items().  A value that is neither a string nor a dict has
\* no items(): the AttributeError is no ValueError, it ends the call and
\* the entries after it are never reached.
RECURSIVE AddRawEntries(_, _, _, _)
AddRawEntries(table, trigs, sequences_def, i) ==
  IF i > Len(sequences_def) THEN table
  ELSE LET en == sequences_def[i]
           isAlias == en.kind = "alias"
           known == en.alias \in EntryNames(sequences_def)
           ref == EntryNamed(sequences_def, en.alias)
           skipped == isAlias /\ (~known \/ ref.kind = "alias")
           value == IF isAlias THEN ref ELSE en
           shifted == HasShiftPrefix(en.name)
           stripped == IF shifted THEN Tail(en.name) ELSE en.name
       IN IF skipped \/ Raised(ParseTargetKey(stripped))
          THEN AddRawEntries(table, trigs, sequences_def, i + 1)
          ELSE IF value.kind = "other" THEN table
          ELSE AddRawEntries(
                 AddComposeGroup(table, trigs, en.name, value.targets),
                 trigs, sequences_def, i + 1)

\* _load_single_config(config_path, is_system=False) on a sequence file
LoadSingleConfig(table, trigs, file) ==
  IF file.status \in {"missing", "badjson", "notdict"} THEN table
  ELSE AddRawEntries(table, trigs, file.sequences, 1)

\* _load_sequence_file; umlaut_paths tells whether the import of
\* load_sequence_config succeeded
LoadSequenceFile(table, trigs, file, umlaut_paths) ==
  IF ~umlaut_paths THEN LoadSingleConfig(table, trigs, file)
  ELSE IF LoadSequenceConfigIsNone(file) THEN table
  ELSE AddEntries(table, trigs, LoadSequenceConfig(file), 1)


(***************************************************************************)
(* The settings file and load_config.                                      *)
(***************************************************************************)
\* settings.config.json.  status: "ok", "missing" (FileNotFoundError),
\* "badjson" (JSONDecodeError), "unreadable" (another OSError of open),
\* "notdict" (the root is no JSON object).  log_level: "absent", "str" or
\* "nonstr" (a JSON value without .upper()).
Settings(status, trigger_key, passthrough_keys, enabled_sequences, log_level) ==
  [status |-> status, trigger_key |-> trigger_key,
   passthrough_keys |-> passthrough_keys,
   enabled_sequences |-> enabled_sequences, log_level |-> log_level,
   timeout_ms |-> [kind |-> "absent", value |-> 0]]

\* settings['timeout_ms'] as JSON: an integer, a float (given in tenths),
\* a string holding a decimal integer, another string, null, Infinity
TInt(n) == [kind |-> "int", value |-> n]
TFloat(tenths) == [kind |-> "float", value |-> tenths]
TStr(n) == [kind |-> "str", value |-> n]
TBadStr == [kind |-> "badstr", value |-> 0]
TNull == [kind |-> "null", value |-> 0]
TInfinity == [kind |-> "inf", value |-> 0]
WithTimeout(settings, v) == [settings EXCEPT !.timeout_ms = v]

\* int(settings['timeout_ms']): a ValueError or TypeError is caught, the
\* OverflowError of int(inf) is not
IntRaises(v) == v.kind \in {"badstr", "null"}
IntOverflows(v) == v.kind = "inf"
IntOf(v) ==
  IF v.kind = "float"
  THEN IF v.value >= 0 THEN v.value \div 10 ELSE -((-v.value) \div 10)
  ELSE v.value

\* UmlautConfig.__init__: self.timeout_ms = 1000
DEFAULT_TIMEOUT_MS == 1000
\* if 100 <= value <= 10000
MIN_TIMEOUT_MS == 100
MAX_TIMEOUT_MS == 10000

\* the fields of UmlautConfig that load_config rebuilds
Config(sequences, trigger_keys_list, passthrough_keys, timeout_ms) ==
  [sequences |-> sequences, trigger_keys_list |-> trigger_keys_list,
   passthrough_keys |-> passthrough_keys, timeout_ms |-> timeout_ms]

\* how a call ended: "ok" (returned), "fatal" (_fatal_error: SystemExit),
\* "error" (another exception), with the fields as the call left them
Outcome(result, config) == [result |-> result, config |-> config]

\* for mod_key in trigger_key_def: append, or stop at the first unknown name
RECURSIVE TriggerCodes(_)
TriggerCodes(names) ==
  IF names = <<>> THEN <<>>
  ELSE IF KeyNameToCode(Head(names)) = ValueError THEN <<ValueError>>
  ELSE <<KeyNameToCode(Head(names))>> \o TriggerCodes(Tail(names))

\* for pt_key in ignore_def: append _parse_target_key(pt_key)[0], a
\* ValueError skips the key
RECURSIVE PassthroughCodes(_)
PassthroughCodes(names) ==
  IF names = <<>> THEN <<>>
  ELSE (IF Raised(ParseTargetKey(Head(names))) THEN <<>>
        ELSE <<ParseTargetKey(Head(names))[1]>>)
       \o PassthroughCodes(Tail(names))

\* _load_single_config(settings_path, is_system=True, sequences_allowed=False)
LoadSettings(cfg, settings) ==
  IF settings.status \in {"missing", "badjson"} THEN Outcome("fatal", cfg)
  ELSE IF settings.status = "unreadable" THEN Outcome("error", cfg)
  ELSE IF settings.status = "notdict" THEN Outcome("ok", cfg)
  ELSE
    LET trig == IF settings.trigger_key = <<>> THEN cfg.trigger_keys_list
                ELSE TriggerCodes(settings.trigger_key)
        trigFatal == Raised(trig)
        \* the list as the loop left it when the unknown name was met
        trigKept == SelectSeq(trig, LAMBDA c : c # ValueError)
        pt == IF settings.passthrough_keys = <<>> THEN cfg.passthrough_keys
              ELSE PassthroughCodes(settings.passthrough_keys)
        v == settings.timeout_ms
        tm == IF v.kind = "absent" \/ IntRaises(v) \/ IntOverflows(v)
              THEN cfg.timeout_ms
              ELSE IF MIN_TIMEOUT_MS <= IntOf(v) /\ IntOf(v) <= MAX_TIMEOUT_MS
              THEN IntOf(v)
              ELSE cfg.timeout_ms
    IN IF trigFatal
       THEN Outcome("fatal", Config(cfg.sequences, trigKept, cfg.passthrough_keys,
                                    cfg.timeout_ms))
       ELSE IF IntOverflows(v) \/ settings.log_level = "nonstr"
       THEN Outcome("error", Config(cfg.sequences, trig, pt, tm))
       ELSE Outcome("ok", Config(cfg.sequences, trig, pt, tm))

\* the loop of _load_enabled_configs over enabled_sequences
RECURSIVE LoadEnabled(_, _, _, _)
LoadEnabled(table, trigs, d, stems) ==
  IF stems = <<>> THEN table
  ELSE LoadEnabled(
         IF d.files[Head(stems)].status = "missing" THEN table
         ELSE LoadSequenceFile(table, trigs, d.files[Head(stems)],
                               d.umlaut_paths),
         trigs, d, Tail(stems))

\* _load_enabled_configs
LoadEnabledConfigs(cfg, disk) ==
  IF disk.settings.status # "ok" THEN cfg
  ELSE Config(LoadEnabled(cfg.sequences, cfg.trigger_keys_list, disk,
                          disk.settings.enabled_sequences),
              cfg.trigger_keys_list, cfg.passthrough_keys, cfg.timeout_ms)

\* a load_config without its clear() calls, which C10_ReloadIdempotent
\* rejects
NotCleared(cfg) == cfg

\* the three clear() calls at the top of load_config
Cleared(cfg) == Config(EmptyTable, <<>>, <<>>, cfg.timeout_ms)

\* a validation that asks for a trigger key only, which
\* C11_FatalWhenEmpty rejects
NoTriggerKeyOnly(c) == c.trigger_keys_list = <<>>

\* load_config, the fatal validation: not self.trigger_keys_list, or
\* not self.sequences
FatalValidation(c) == c.trigger_keys_list = <<>> \/ DOMAIN c.sequences = {}

\* load_config
LoadConfig(cfg, disk) ==
  LET s == LoadSettings(Cleared(cfg), disk.settings)
      c == LoadEnabledConfigs(s.config, disk)
  IN IF s.result # "ok" THEN s
     ELSE IF FatalValidation(c)
     THEN Outcome("fatal", c)
     ELSE Outcome("ok", c)

\* UmlautDaemon.__init__: the compose keys of the sequence tuples
ValidComposeKeys(sequences) ==
  {t[3] : t \in {u \in DOMAIN sequences : Len(u) >= 3}}

(***************************************************************************)
(* The files of the model.                                                 *)
(***************************************************************************)
\* {";": {"a": "ä", "o": "ö"}, "SHIFT+;": {"a": "Ä"}}
UmlautFile ==
  [status |-> "ok",
   sequences |-> <<
     JTargets(<<";">>, <<JTarget(<<"a">>, JStr(<<"ä">>)),
                         JTarget(<<"o">>, JStr(<<"ö">>))>>),
     JTargets(<<"SHIFT", ";">>, <<JTarget(<<"a">>, JStr(<<"Ä">>))>>) >>]

\* {"'": {"a": "á", "£": "a", "o": {}}, "KEY_NOSUCH": {"a": "a"},
\*  "tab": "'"}
AccentFile ==
  [status |-> "ok",
   sequences |-> <<
     JTargets(<<"'">>, <<JTarget(<<"a">>, JStr(<<"á">>)),
                         JTarget(<<"£">>, JStr(<<"a">>)),
                         JTarget(<<"o">>, JObject)>>),
     JTargets(<<"KEY_NOSUCH">>, <<JTarget(<<"a">>, JStr(<<"a">>))>>),
     JAlias(<<"tab">>, <<"'">>) >>]

\* {";": {"a": "á"}}
OverrideFile ==
  [status |-> "ok",
   sequences |-> << JTargets(<<";">>, <<JTarget(<<"a">>, JStr(<<"á">>))>>) >>]

MissingFile == [status |-> "missing", sequences |-> <<>>]
BadJsonFile == [status |-> "badjson", sequences |-> <<>>]

\* the settings the daemon starts with:
\* {"trigger_key": "KEY_LEFTALT", "passthrough_keys": ["KEY_TAB"],
\*  "enabled_sequences": ["umlaut"]}
StartSettings ==
  Settings("ok", <<"KEY_LEFTALT">>, << <<"KEY_TAB">> >>, <<"umlaut">>, "absent")

\* the disk the daemon starts with
StartDisk ==
  [settings |-> StartSettings, umlaut_paths |-> TRUE,
   files |-> [stem \in {"umlaut", "accent"} |->
                IF stem = "umlaut" THEN UmlautFile ELSE AccentFile]]


(***************************************************************************)
(* State.                                                                  *)
(***************************************************************************)
VARIABLES
  disk,                \* the settings file and the sequence files
  test_mode_file,      \* whether the applet's test-mode marker file exists
  running,             \* the daemon process is alive
  config,              \* UmlautDaemon.config: sequences, trigger_keys_list,
                       \* passthrough_keys
  valid_compose_keys,  \* UmlautDaemon.valid_compose_keys
  state,               \* UmlautDaemon.state
  pressed_keys,        \* UmlautDaemon.pressed_keys
  current_trigger,     \* UmlautDaemon.current_trigger
  current_compose,     \* UmlautDaemon.current_compose
  compose_shifted,     \* UmlautDaemon.compose_shifted
  compose_start_time,  \* UmlautDaemon.compose_start_time
  trigger_start_time,  \* UmlautDaemon.trigger_start_time
  now,                 \* time.time(), in ticks since the machine was last
                       \* IDLE
  out,                 \* what the last handler run wrote to the virtual device
  vheld,               \* the keys that are down on the virtual device
  last,                \* the last handler run: its input and the state before
  leaked,              \* history: parts of the running compose attempt that
                       \* were forwarded to the virtual device
  shift_after,         \* history: the Shift keys pressed since the trigger
                       \* and still held
  proc,                \* the process: where run() is, the devices it holds,
                       \* the directory watch and what became of a signal
  tester,              \* the applet's SequenceTester and the result of its
                       \* last feed_key
  held_on              \* the keys physically down, as <<keyboard, key code>>,
                       \* where several keyboards are told apart

vars ==
  <<disk, test_mode_file, running, config, valid_compose_keys, state,
    pressed_keys, current_trigger, current_compose, compose_shifted,
    compose_start_time, trigger_start_time, now, out, vheld, last, leaked,
    shift_after, proc, tester, held_on>>

\* self.timeout_sec, in ticks of the clock
timeout_sec == 2

\* _check_xdotool found a working xdotool
xdotool_available == TRUE

\* the keys of the model's keyboard; the Ctrl and Meta keys are on the
\* keyboard of SpecMods, both Shift keys on that of SpecTarget
Keys ==
  {KEY_ESC, KEY_TAB, KEY_A, KEY_SEMICOLON, KEY_LEFTSHIFT, KEY_LEFTALT}

\* a Shift test that looks at LeftShift alone, which
\* C26_ComposeKeyPress rejects
LeftShiftOnly == {KEY_LEFTSHIFT}

Shifts == {KEY_LEFTSHIFT, KEY_RIGHTSHIFT}
Ctrls == {KEY_LEFTCTRL, KEY_RIGHTCTRL}
Alts == {KEY_LEFTALT, KEY_RIGHTALT}
Metas == {KEY_LEFTMETA, KEY_RIGHTMETA}
\* the tuple of eight modifier keys tested in COMPOSE_PRESSED and
\* WAITING_TARGET
ModifierKeys == Shifts \cup Ctrls \cup Alts \cup Metas

\* x in list
InList(x, list) == \E i \in 1..Len(list) : list[i] = x

(***************************************************************************)
(* Writes to the virtual device.                                           *)
(***************************************************************************)
\* self.uinput.write(e.EV_KEY, code, value)
W(code, value) == [t |-> "key", code |-> code, value |-> value, ch |-> ""]
\* self.uinput.syn()
SYN == [t |-> "syn", code |-> 0, value |-> 0, ch |-> ""]
\* subprocess.run(['xdotool', 'type', '--', char])
XDO(char) == [t |-> "xdotool", code |-> 0, value |-> 0, ch |-> char]

\* the keys down on the virtual device after the writes ws
RECURSIVE ApplyWrites(_, _)
ApplyWrites(held, ws) ==
  IF ws = <<>> THEN held
  ELSE ApplyWrites(
         IF Head(ws).t = "key" /\ Head(ws).value = 1
         THEN held \cup {Head(ws).code}
         ELSE IF Head(ws).t = "key" /\ Head(ws).value = 0
         THEN held \ {Head(ws).code}
         ELSE held,
         Tail(ws))

\* the key events among the writes ws, as <<code, value>>
KeyWrites(ws) ==
  LET ks == SelectSeq(ws, LAMBDA w : w.t = "key")
  IN [i \in 1..Len(ks) |-> <<ks[i].code, ks[i].value>>]

\* subprocess.run(['xdotool', 'keydown', 'shift']) (value 1) and
\* subprocess.run(['xdotool', 'keyup', 'shift']) (value 0)
XDOShift(value) == [t |-> "xdotool", code |-> 0, value |-> value, ch |-> "shift"]

\* char.isupper()
IsUpper(char) == char \in {"A", "O", "Ä", "Ö", "Á"}

\* emit_unicode_char
EmitUnicodeChar(char) ==
  IF ~xdotool_available THEN <<>>
  ELSE IF IsUpper(char) THEN <<XDOShift(1), XDO(char), XDOShift(0)>>
  ELSE <<XDO(char)>>

\* emit_string, one character
EmitChar(char) ==
  IF char \in AsciiChars
     /\ (char \in DOMAIN CHAR_TO_KEY \/ char \in DOMAIN SHIFTED_CHARS)
  THEN LET needs_shift == char \in DOMAIN SHIFTED_CHARS
           base_char == IF needs_shift THEN SHIFTED_CHARS[char] ELSE char
           key_code == CHAR_TO_KEY[base_char]
       IN (IF needs_shift THEN <<W(KEY_LEFTSHIFT, 1), SYN>> ELSE <<>>)
          \o <<W(key_code, 1), SYN, W(key_code, 0), SYN>>
          \o (IF needs_shift THEN <<W(KEY_LEFTSHIFT, 0), SYN>> ELSE <<>>)
  ELSE EmitUnicodeChar(char)

\* emit_string
RECURSIVE EmitString(_)
EmitString(text) ==
  IF text = <<>> THEN <<>> ELSE EmitChar(Head(text)) \o EmitString(Tail(text))

\* emit_key: for mod in modifiers: write(mod, value); syn()
RECURSIVE ModifierWrites(_, _)
ModifierWrites(modifiers, value) ==
  IF modifiers = <<>> THEN <<>>
  ELSE <<W(Head(modifiers), value), SYN>> \o ModifierWrites(Tail(modifiers), value)

\* emit_key
EmitKey(key_code, value, modifiers) ==
  ModifierWrites(modifiers, 1)
  \o <<W(key_code, value), SYN>>
  \o (IF value = 0 THEN ModifierWrites(modifiers, 0) ELSE <<>>)

\* emit_output, a key action: the modifiers the key is emitted with
KeyModifiers(output, target_was_shifted) ==
  IF output.plain
  THEN IF target_was_shifted THEN <<KEY_LEFTSHIFT>> ELSE <<>>
  ELSE IF target_was_shifted
          /\ ~\E i \in 1..Len(output.modifiers) : output.modifiers[i] \in Shifts
       THEN Append(output.modifiers, KEY_LEFTSHIFT)
       ELSE output.modifiers

\* a loop over the elements that hands target_was_shifted to every one of
\* them, which C20_ShiftFirstElementOnly rejects
ShiftEveryElement(i, target_was_shifted) == target_was_shifted

\* emit_output, a sequence: target_was_shifted if i == 0 else False (the
\* model counts the elements from 1)
ShiftForElement(i, target_was_shifted) ==
  IF i = 1 THEN target_was_shifted ELSE FALSE

\* emit_output
RECURSIVE EmitOutput(_, _)
RECURSIVE EmitActions(_, _, _)
EmitActions(actions, i, target_was_shifted) ==
  IF i > Len(actions) THEN <<>>
  ELSE EmitOutput(actions[i], ShiftForElement(i, target_was_shifted))
       \o EmitActions(actions, i + 1, target_was_shifted)
EmitOutput(output, target_was_shifted) ==
  CASE output.action_type = "string" ->
         EmitString(IF target_was_shifted THEN UpperText(output.text)
                    ELSE output.text)
    [] output.action_type = "key" ->
         EmitKey(output.key, 1, KeyModifiers(output, target_was_shifted))
         \o EmitKey(output.key, 0, KeyModifiers(output, target_was_shifted))
    [] output.action_type = "sequence" ->
         EmitActions(output.actions, 1, target_was_shifted)


(***************************************************************************)
(* The compose state machine.  A handler is a function from the machine's  *)
(* fields m (and the event) to the fields after it, the writes it made and *)
(* the branch it took (log: the branch's debug message, abridged).         *)
(***************************************************************************)
Machine ==
  [state |-> state, current_trigger |-> current_trigger,
   current_compose |-> current_compose, compose_shifted |-> compose_shifted,
   compose_start_time |-> compose_start_time,
   trigger_start_time |-> trigger_start_time]

Result(m, writes, log) == [m |-> m, out |-> writes, log |-> log]

\* a reset that leaves compose_shifted as it was, which
\* C40_StateConsistency rejects
CancelComposeKeepShifted(m) ==
  [state |-> "IDLE", current_trigger |-> None, current_compose |-> None,
   compose_shifted |-> m.compose_shifted, compose_start_time |-> 0,
   trigger_start_time |-> 0]

\* cancel_compose
CancelCompose(m) ==
  [state |-> "IDLE", current_trigger |-> None, current_compose |-> None,
   compose_shifted |-> FALSE, compose_start_time |-> 0,
   trigger_start_time |-> 0]

\* a force release that forgets the right Shift key, which
\* C5_EscForceRelease rejects
ForceReleaseLeftShiftOnly(m) ==
  (IF m.current_trigger # None
   THEN <<W(m.current_trigger, 0), SYN>> ELSE <<>>)
  \o (IF m.current_compose # None
      THEN <<W(m.current_compose, 0), SYN>> ELSE <<>>)
  \o <<W(KEY_LEFTSHIFT, 0), SYN>>

\* the writes of force_release_all
ForceReleaseWrites(m) ==
  (IF m.current_trigger # None
   THEN <<W(m.current_trigger, 0), SYN>> ELSE <<>>)
  \o (IF m.current_compose # None
      THEN <<W(m.current_compose, 0), SYN>> ELSE <<>>)
  \o <<W(KEY_LEFTSHIFT, 0), SYN, W(KEY_RIGHTSHIFT, 0), SYN>>

\* force_release_all
\* a force release that does not cancel the compose attempt, which
\* C32_ReloadForceReleases rejects
ForceReleaseNoCancel(m, log) == Result(m, ForceReleaseWrites(m), log)

ForceReleaseAll(m, log) == Result(CancelCompose(m), ForceReleaseWrites(m), log)

\* a pass-through that drops key repeats, which C2_IdlePassThrough rejects
PassThroughNoRepeat(key_code, value) ==
  IF value = 2 THEN <<>> ELSE <<W(key_code, value), SYN>>

\* "Pass through if not handled": the last two lines of handle_event
PassThrough(key_code, value) == <<W(key_code, value), SYN>>

\* a trigger press without its release, which C25_TriggerTapOnEarlyEnd
\* rejects
TriggerPressOnly(m) == <<W(m.current_trigger, 1), SYN>>

\* the trigger's press and release
TriggerTap(m) ==
  <<W(m.current_trigger, 1), SYN, W(m.current_trigger, 0), SYN>>

\* the compose key's press and release, with Shift if compose_shifted
ComposeTap(m) ==
  (IF m.compose_shifted THEN <<W(KEY_LEFTSHIFT, 1), SYN>> ELSE <<>>)
  \o <<W(m.current_compose, 1), SYN, W(m.current_compose, 0), SYN>>
  \o (IF m.compose_shifted THEN <<W(KEY_LEFTSHIFT, 0), SYN>> ELSE <<>>)

\* an abort that forwards the key without the trigger's press, which
\* C24_NonComposeKeyAborts rejects
ShortcutWritesKeyOnly(m, key_code, value) == <<W(key_code, value), SYN>>

\* "Send original modifier, then this key" in TRIGGER_PRESSED
ShortcutWrites(m, key_code, value) ==
  <<W(m.current_trigger, 1), SYN, W(key_code, value), SYN>>

\* handle_event, state IDLE
\* other modifiers that leave out the Meta keys, which
\* C22_TriggerWithOtherModifiers rejects
OtherModifiersCtrlOnly(key_code) == Ctrls \ {key_code}

\* other_modifiers, after other_modifiers.discard(key_code)
OtherModifiers(key_code) == (Ctrls \cup Metas) \ {key_code}

\* the write of the trigger press with other modifiers held is followed by
\* no syn()
HandleIdle(m, key_code, value, pressed, cfg) ==
  IF value = 1 /\ InList(key_code, cfg.trigger_keys_list)
  THEN IF pressed \cap OtherModifiers(key_code) # {}
       THEN Result(m, <<W(key_code, value)>>, "with other mods - passing through")
       ELSE Result([m EXCEPT !.current_trigger = key_code,
                             !.state = "TRIGGER_PRESSED",
                             !.trigger_start_time = now],
                   <<>>, "Modifier pressed")
  ELSE Result(m, PassThrough(key_code, value), "pass")

\* handle_event, state TRIGGER_PRESSED
HandleTriggerPressed(m, key_code, value, pressed, cfg, valid) ==
  IF value = 0 /\ key_code = m.current_trigger
  THEN Result(CancelCompose(m), TriggerTap(m),
              "Modifier released early - passing through")
  ELSE IF value = 1 /\ key_code \in Ctrls \cup Shifts \cup Metas
          /\ ~InList(key_code, cfg.trigger_keys_list)
  THEN IF key_code \in Shifts
       THEN Result(m, <<>>, "Shift pressed during modifier")
       ELSE Result(CancelCompose(m), ShortcutWrites(m, key_code, value),
                   "Additional modifier pressed - passing through")
  ELSE IF value = 1 /\ InList(key_code, cfg.passthrough_keys)
  THEN Result(CancelCompose(m), ShortcutWrites(m, key_code, value),
              "Ignored key - passing through")
  ELSE IF value = 1 /\ key_code # m.current_trigger
  THEN IF key_code \notin valid
       THEN Result(CancelCompose(m), ShortcutWrites(m, key_code, value),
                   "no sequences - passing through as shortcut")
       ELSE Result([m EXCEPT !.current_compose = key_code,
                             !.compose_shifted = (pressed \cap Shifts # {}),
                             !.state = "COMPOSE_PRESSED"],
                   <<>>, "Compose key pressed")
  ELSE Result(m, PassThrough(key_code, value), "pass")

\* "Pass Shift releases through" in COMPOSE_PRESSED and WAITING_TARGET
ShiftReleaseWrites(key_code, value) ==
  IF key_code \in ModifierKeys /\ value = 0 /\ key_code \in Shifts
  THEN <<W(key_code, 0), SYN>> ELSE <<>>

\* handle_event, state COMPOSE_PRESSED
\* a test of the trigger's release alone, which C27_WaitingTargetEntry
\* rejects
TriggerReleased(m, pressed) == m.current_trigger \notin pressed

\* modifier_released and compose_released
BothReleased(m, pressed) ==
  m.current_trigger \notin pressed /\ m.current_compose \notin pressed

HandleComposePressed(m, key_code, value, pressed) ==
  IF value = 0 /\ (key_code = m.current_trigger \/ key_code = m.current_compose)
  THEN IF BothReleased(m, pressed)
       THEN Result([m EXCEPT !.state = "WAITING_TARGET",
                             !.compose_start_time = now],
                   ShiftReleaseWrites(key_code, value), "Waiting for target key")
       ELSE Result(m, ShiftReleaseWrites(key_code, value), "partial release")
  ELSE Result(m, ShiftReleaseWrites(key_code, value)
                 \o PassThrough(key_code, value), "pass")

\* target_keys of the pressed target: [key_code], then insert(0, ...) for
\* Shift, for Ctrl and for Alt
TargetKeys(key_code, pressed, cfg) ==
  (IF pressed \cap Alts # {} /\ ~InList(key_code, cfg.trigger_keys_list)
   THEN <<KEY_LEFTALT>> ELSE <<>>)
  \o (IF pressed \cap Ctrls # {} THEN <<KEY_LEFTCTRL>> ELSE <<>>)
  \o (IF pressed \cap Shifts # {} THEN <<KEY_LEFTSHIFT>> ELSE <<>>)
  \o <<key_code>>

\* unshifted_target_keys
Unshifted(target_keys) == SelectSeq(target_keys, LAMBDA k : k \notin Shifts)

\* the matched lookup key of a target press, or <<>> when nothing matches
\* a lookup that tries the tuple without Shift first, which
\* C29_UnshiftedFallback rejects
MatchedKeyUnshiftedFirst(m, key_code, pressed, cfg) ==
  LET target_keys == TargetKeys(key_code, pressed, cfg)
      lookup_key == LookupKey(m.current_trigger, m.compose_shifted,
                              m.current_compose, target_keys)
      unshifted_lookup_key ==
        LookupKey(m.current_trigger, m.compose_shifted, m.current_compose,
                  Unshifted(target_keys))
  IN IF unshifted_lookup_key \in DOMAIN cfg.sequences
     THEN unshifted_lookup_key
     ELSE IF lookup_key \in DOMAIN cfg.sequences THEN lookup_key
     ELSE <<>>

MatchedKey(m, key_code, pressed, cfg) ==
  LET target_keys == TargetKeys(key_code, pressed, cfg)
      target_was_shifted == pressed \cap Shifts # {}
      lookup_key == LookupKey(m.current_trigger, m.compose_shifted,
                              m.current_compose, target_keys)
      unshifted_lookup_key ==
        LookupKey(m.current_trigger, m.compose_shifted, m.current_compose,
                  Unshifted(target_keys))
  IN IF lookup_key \in DOMAIN cfg.sequences THEN lookup_key
     ELSE IF target_was_shifted /\ unshifted_lookup_key \in DOMAIN cfg.sequences
     THEN unshifted_lookup_key
     ELSE <<>>

\* a replay without the Shift around the compose key, which
\* C3_NoMatchReplay rejects
NoMatchWritesNoShift(m, key_code, value) ==
  TriggerTap(m)
  \o <<W(m.current_compose, 1), SYN, W(m.current_compose, 0), SYN>>
  \o <<W(key_code, value), SYN>>

\* "No match - pass through modifier, compose, then target"
NoMatchWrites(m, key_code, value) ==
  TriggerTap(m) \o ComposeTap(m) \o <<W(key_code, value), SYN>>

\* handle_event, state WAITING_TARGET
HandleWaitingTarget(m, key_code, value, pressed, cfg) ==
  IF key_code \in ModifierKeys
  THEN Result(m, ShiftReleaseWrites(key_code, value), "modifier ignored")
  ELSE IF value = 1
  THEN LET matched == MatchedKey(m, key_code, pressed, cfg)
       IN IF matched # <<>>
          THEN Result(CancelCompose(m),
                      EmitOutput(cfg.sequences[matched].output,
                                 pressed \cap Shifts # {}),
                      "Sequence matched")
          ELSE Result(CancelCompose(m), NoMatchWrites(m, key_code, value),
                      "No match - passing through")
  ELSE Result(m, PassThrough(key_code, value), "pass")

\* self.pressed_keys after the update at the top of handle_event
PressedAfter(pressed, key_code, value) ==
  IF value = 1 THEN pressed \cup {key_code}
  ELSE IF value = 0 THEN pressed \ {key_code}
  ELSE pressed

\* handle_event for a key event, after the update of pressed_keys
\* a repeat test that drops repeats in TRIGGER_PRESSED alone, which
\* C30_RepeatDropped rejects
RepeatIgnoredAfterTrigger(m, value) == value = 2 /\ m.state = "TRIGGER_PRESSED"

\* "Ignore key repeat events during compose"
RepeatIgnored(m, value) == value = 2 /\ m.state # "IDLE"

HandleKey(m, key_code, value, pressed, cfg, valid) ==
  IF RepeatIgnored(m, value)
  THEN Result(m, <<>>, "repeat ignored")
  ELSE IF key_code = KEY_ESC /\ value = 1 /\ m.state # "IDLE"
  THEN ForceReleaseAll(m, "ESC pressed - force cancelling compose")
  ELSE CASE m.state = "IDLE" ->
              HandleIdle(m, key_code, value, pressed, cfg)
         [] m.state = "TRIGGER_PRESSED" ->
              HandleTriggerPressed(m, key_code, value, pressed, cfg, valid)
         [] m.state = "COMPOSE_PRESSED" ->
              HandleComposePressed(m, key_code, value, pressed)
         [] m.state = "WAITING_TARGET" ->
              HandleWaitingTarget(m, key_code, value, pressed, cfg)

\* check_timeout, when a deadline has passed
TimeoutDue(m) ==
  \/ m.state = "TRIGGER_PRESSED" /\ now - m.trigger_start_time >= timeout_sec
  \/ m.state = "WAITING_TARGET" /\ now - m.compose_start_time >= timeout_sec

\* a timeout that replays the trigger only, which C4_ComposeTimeoutReplay
\* rejects
TimeoutResultTriggerOnly(m) ==
  Result(CancelCompose(m), TriggerTap(m), "Modifier timeout")

\* check_timeout's two branches
TimeoutResult(m) ==
  IF m.state = "TRIGGER_PRESSED"
  THEN Result(CancelCompose(m), TriggerTap(m), "Modifier timeout")
  ELSE Result(CancelCompose(m), TriggerTap(m) \o ComposeTap(m),
              "Compose timeout")


(***************************************************************************)
(* The process.  Descriptors are named by what they are open on.           *)
(***************************************************************************)
\* self._inotify_fd = None
NoFd == "None"
\* the descriptor that inotify_init1 returned
InotifyFd == "inotify"

\* the fields of the process.  pc: the statement of main() and run() that
\* is next; devices: self.devices; grabbed: the devices under an exclusive
\* grab; uinput: the virtual device is open; watch: the directory watch on
\* /dev/input is open; inotify_fd: self._inotify_fd; watch_fds: the set
\* given to select; pending: the created nodes the watch has queued;
\* created: the event* nodes created since the loop began; iterated: a
\* select has returned since the last node was created; signalled: a
\* signal arrived after grab_devices; released: its handler ran
\* force_release_all on the open virtual device; listed: what
\* evdev.list_devices() returned to find_keyboard_devices
Process(pc, devices, grabbed, uinput, watch, inotify_fd, watch_fds) ==
  [pc |-> pc, devices |-> devices, grabbed |-> grabbed, uinput |-> uinput,
   watch |-> watch, inotify_fd |-> inotify_fd, watch_fds |-> watch_fds,
   pending |-> {}, created |-> {}, iterated |-> FALSE, signalled |-> FALSE,
   released |-> FALSE, listed |-> devices]

\* main() before it constructs the daemon
ProcMain == Process("main", {}, {}, FALSE, FALSE, NoFd, {})

\* run() in its loop, one keyboard grabbed; _check_xdotool has left
\* self._inotify_fd None
ProcLoop == Process("loop", {"kbd1"}, {"kbd1"}, TRUE, TRUE, NoFd, {"kbd1"})

(***************************************************************************)
(* Initial state: the daemon has been constructed from StartDisk.          *)
(***************************************************************************)
\* UmlautConfig.__init__ before load_config
EmptyConfig == Config(EmptyTable, <<>>, <<>>, DEFAULT_TIMEOUT_MS)

\* a handler run, for the history variable last: its input, the state it
\* started from and the branch it took
LastRun(op, key, value, m, log) ==
  [op |-> op, key |-> key, value |-> value, from |-> m.state,
   trigger |-> m.current_trigger, compose |-> m.current_compose,
   shifted |-> m.compose_shifted, marker |-> test_mode_file,
   config |-> config, log |-> log]

(***************************************************************************)
(* The applet's SequenceTester, the state machine of the test drawer.  Its *)
(* tables are the daemon's: the same trigger keys, passthrough keys and    *)
(* sequence table.                                                         *)
(***************************************************************************)
\* SequenceTester.__init__: nothing loaded, IDLE, no result yet
NewTester ==
  [loaded |-> FALSE, state |-> "IDLE", trigger |-> None, compose |-> None,
   compose_shifted |-> FALSE, pressed |-> {}, status |-> "", output |-> ""]

\* SequenceTester._reset_state
ResetState(t) ==
  [t EXCEPT !.state = "IDLE", !.trigger = None, !.compose = None,
            !.compose_shifted = FALSE]

\* the dict (or None, status "") that feed_key returns
Returns(t, status, output) == [t EXCEPT !.status = status, !.output = output]

\* feed_key, state IDLE
FeedIdle(t, key_code, value, cfg) ==
  IF value # 1 THEN Returns(t, "", "")
  ELSE IF InList(key_code, cfg.trigger_keys_list)
  THEN IF t.pressed \cap ((Ctrls \cup Metas) \ {key_code}) # {}
       THEN Returns(t, "passthrough", "")
       ELSE Returns([t EXCEPT !.trigger = key_code,
                              !.state = "TRIGGER_PRESSED"], "", "")
  ELSE Returns(t, "", "")

\* feed_key, state TRIGGER_PRESSED
FeedTriggerPressed(t, key_code, value, cfg, valid) ==
  IF value = 0 /\ key_code = t.trigger
  THEN Returns(ResetState(t), "passthrough", "")
  ELSE IF value # 1 THEN Returns(t, "", "")
  ELSE IF key_code \in Shifts THEN Returns(t, "", "")
  ELSE IF InList(key_code, cfg.passthrough_keys)
          \/ key_code \in Ctrls \cup Metas
          \/ key_code \notin valid
  THEN Returns(ResetState(t), "passthrough", "")
  ELSE Returns([t EXCEPT !.compose = key_code,
                         !.compose_shifted = (t.pressed \cap Shifts # {}),
                         !.state = "COMPOSE_PRESSED"], "", "")

\* feed_key, state COMPOSE_PRESSED
FeedComposePressed(t, key_code, value, cfg) ==
  IF key_code \in ModifierKeys /\ ~InList(key_code, cfg.trigger_keys_list)
  THEN Returns(t, "", "")
  ELSE IF /\ value = 0
          /\ key_code \in {t.trigger, t.compose}
          /\ t.trigger \notin t.pressed
          /\ t.compose \notin t.pressed
  THEN Returns([t EXCEPT !.state = "WAITING_TARGET"], "waiting", "")
  ELSE Returns(t, "", "")

\* feed_key, state WAITING_TARGET: target_codes is Shift, if one is held,
\* and the key; the lookup, then the unshifted fallback
FeedWaitingTarget(t, key_code, value, cfg) ==
  IF key_code \in ModifierKeys \/ value # 1 THEN Returns(t, "", "")
  ELSE LET target_shifted == t.pressed \cap Shifts # {}
           target_codes == (IF target_shifted THEN <<KEY_LEFTSHIFT>>
                            ELSE <<>>) \o <<key_code>>
           lookup == LookupKey(t.trigger, t.compose_shifted, t.compose,
                               target_codes)
           ul == LookupKey(t.trigger, t.compose_shifted, t.compose,
                           <<key_code>>)
       IN IF lookup \in DOMAIN cfg.sequences
          THEN Returns(ResetState(t), "matched", cfg.sequences[lookup].output)
          ELSE IF target_shifted /\ ul \in DOMAIN cfg.sequences
          THEN Returns(ResetState(t), "matched", cfg.sequences[ul].output)
          ELSE Returns(ResetState(t), "no_match", "")

\* SequenceTester.feed_key
feed_key(tester0, key_code, value, cfg, valid) ==
  LET t == [tester0 EXCEPT
              !.pressed = PressedAfter(tester0.pressed, key_code, value)]
  IN IF value = 2 /\ t.state # "IDLE" THEN Returns(t, "", "")
     ELSE IF key_code = KEY_ESC /\ value = 1
     THEN Returns(ResetState(t), "", "")
     ELSE IF t.state = "IDLE" THEN FeedIdle(t, key_code, value, cfg)
     ELSE IF t.state = "TRIGGER_PRESSED"
     THEN FeedTriggerPressed(t, key_code, value, cfg, valid)
     ELSE IF t.state = "COMPOSE_PRESSED"
     THEN FeedComposePressed(t, key_code, value, cfg)
     ELSE FeedWaitingTarget(t, key_code, value, cfg)

Init ==
  /\ disk = StartDisk
  /\ test_mode_file = FALSE
  /\ running = TRUE
  /\ config = LoadConfig(EmptyConfig, StartDisk).config
  /\ valid_compose_keys = ValidComposeKeys(config.sequences)
  /\ state = "IDLE"
  /\ pressed_keys = {}
  /\ current_trigger = None
  /\ current_compose = None
  /\ compose_shifted = FALSE
  /\ compose_start_time = 0
  /\ trigger_start_time = 0
  /\ now = 0
  /\ out = <<>>
  /\ vheld = {}
  /\ last = [op |-> "init", key |-> None, value |-> 0, from |-> "IDLE",
             trigger |-> None, compose |-> None, shifted |-> FALSE,
             marker |-> FALSE, config |-> EmptyConfig, log |-> ""]
  /\ leaked = {}
  /\ shift_after = {}
  /\ proc = ProcLoop
  /\ tester = NewTester
  /\ held_on = {}

(***************************************************************************)
(* Actions.                                                                *)
(***************************************************************************)
\* The machine reads the clock only as now - trigger_start_time and
\* now - compose_start_time, and only outside IDLE: the clock's origin is
\* moved to the present whenever the machine is IDLE.
Clock(m) == IF m.state = "IDLE" THEN 0 ELSE now

SetMachine(m) ==
  /\ state' = m.state
  /\ current_trigger' = m.current_trigger
  /\ current_compose' = m.current_compose
  /\ compose_shifted' = m.compose_shifted
  /\ compose_start_time' = m.compose_start_time
  /\ trigger_start_time' = m.trigger_start_time

\* the parts of the running attempt's key sequence that the run r forwarded
LeakedBy(m, key_code, value, r) ==
  IF r.m.state = "IDLE"
     \/ ~InList(<<key_code, value>>, KeyWrites(r.out))
  THEN {}
  ELSE (IF key_code = m.current_trigger /\ value = 1
        THEN {"trigger press"} ELSE {})
       \cup (IF key_code = m.current_compose /\ value = 1
             THEN {"compose press"} ELSE {})
       \cup (IF key_code = m.current_compose /\ value = 0
             THEN {"compose release"} ELSE {})

\* the Shift keys pressed since the trigger and still held, after the run r
ShiftAfter(m, key_code, value, r) ==
  IF m.state # "TRIGGER_PRESSED" \/ r.m.state = "COMPOSE_PRESSED" THEN {}
  ELSE IF key_code \in Shifts /\ value = 1 /\ r.m.state = "TRIGGER_PRESSED"
  THEN shift_after \cup {key_code}
  ELSE IF value = 0 THEN shift_after \ {key_code}
  ELSE shift_after

\* handle_event for a key event: pressed_keys, the state's branch, the
\* writes
handle_event(key_code, value) ==
  /\ \E r \in {HandleKey(Machine, key_code, value,
                         PressedAfter(pressed_keys, key_code, value), config,
                         valid_compose_keys)} :
        /\ pressed_keys' = PressedAfter(pressed_keys, key_code, value)
        /\ SetMachine(r.m)
        /\ out' = r.out
        /\ vheld' = ApplyWrites(vheld, r.out)
        /\ last' = LastRun("event", key_code, value, Machine, r.log)
        /\ leaked' = IF state = "IDLE" THEN {}
                     ELSE leaked \cup LeakedBy(Machine, key_code, value, r)
        /\ shift_after' = ShiftAfter(Machine, key_code, value, r)
        /\ now' = Clock(r.m)
        /\ proc' = IF proc.inotify_fd # NoFd
                      /\ \E i \in 1..Len(r.out) : r.out[i].t = "xdotool"
                   THEN [proc EXCEPT !.inotify_fd = NoFd]
                   ELSE proc
        /\ tester' = IF tester.loaded
                     THEN feed_key(tester, key_code, value, config,
                                   valid_compose_keys)
                     ELSE tester
  /\ UNCHANGED <<disk, test_mode_file, running, config, valid_compose_keys>>

\* one key event read from the grabbed keyboard and given to handle_event
HandleEvent(key_code, value) ==
  /\ running
  /\ IF value = 1
     THEN key_code \notin pressed_keys /\ Cardinality(pressed_keys) < MaxPressed
     ELSE key_code \in pressed_keys
  /\ handle_event(key_code, value)
  /\ UNCHANGED held_on

\* check_timeout at the top of a loop iteration, a deadline having passed
CheckTimeout ==
  /\ running
  /\ TimeoutDue(Machine)
  /\ \E r \in {TimeoutResult(Machine)} :
        /\ SetMachine(r.m)
        /\ out' = r.out
        /\ vheld' = ApplyWrites(vheld, r.out)
        /\ last' = LastRun("timeout", None, 0, Machine, r.log)
        /\ now' = Clock(r.m)
  /\ UNCHANGED <<disk, test_mode_file, running, config, valid_compose_keys,
                 pressed_keys, leaked, shift_after, proc, tester, held_on>>

\* time passes; the time that passes in IDLE is not counted
Tick ==
  /\ state # "IDLE"
  /\ now < MaxTime
  /\ now' = now + 1
  /\ UNCHANGED <<disk, test_mode_file, running, config, valid_compose_keys,
                 state, pressed_keys, current_trigger, current_compose,
                 compose_shifted, compose_start_time, trigger_start_time,
                 out, vheld, last, leaked, shift_after, proc, tester, held_on>>

\* the applet's _start_test: TEST_MODE_FILE.touch()
StartTest ==
  /\ ~test_mode_file
  /\ test_mode_file' = TRUE
  /\ UNCHANGED <<disk, running, config, valid_compose_keys, state,
                 pressed_keys, current_trigger, current_compose,
                 compose_shifted, compose_start_time, trigger_start_time,
                 now, out, vheld, last, leaked, shift_after,
                 proc, tester, held_on>>

\* the applet's _stop_test: TEST_MODE_FILE.unlink()
StopTest ==
  /\ test_mode_file
  /\ test_mode_file' = FALSE
  /\ UNCHANGED <<disk, running, config, valid_compose_keys, state,
                 pressed_keys, current_trigger, current_compose,
                 compose_shifted, compose_start_time, trigger_start_time,
                 now, out, vheld, last, leaked, shift_after,
                 proc, tester, held_on>>

\* the ways the files on disk are edited between two loads
NoLogLevelStr ==
  Settings("ok", <<"KEY_LEFTALT">>, << <<"KEY_TAB">> >>, <<"umlaut">>, "nonstr")
BothEnabled ==
  Settings("ok", <<"KEY_LEFTALT">>, << <<"KEY_TAB">> >>, <<"umlaut", "accent">>,
           "absent")
NoneEnabled ==
  Settings("ok", <<"KEY_LEFTALT">>, << <<"KEY_TAB">> >>, <<>>, "absent")
UnknownTrigger ==
  Settings("ok", <<"KEY_LEFTALT", "KEY_NOSUCH">>, <<>>, <<"umlaut">>, "absent")
MissingSettings == Settings("missing", <<>>, <<>>, <<>>, "absent")
UnreadableSettings == Settings("unreadable", <<>>, <<>>, <<>>, "absent")

WithSettings(settings) == [StartDisk EXCEPT !.settings = settings]
WithUmlautFile(file) == [StartDisk EXCEPT !.files["umlaut"] = file]

Disks ==
  {StartDisk, WithSettings(BothEnabled), WithSettings(NoLogLevelStr),
   WithSettings(NoneEnabled), WithSettings(UnknownTrigger),
   WithSettings(MissingSettings), WithSettings(UnreadableSettings),
   WithUmlautFile(OverrideFile), WithUmlautFile(BadJsonFile)}

\* the user or the applet rewrites the settings file or a sequence file
EditDisk ==
  /\ running
  /\ \E d \in Disks : d # disk /\ disk' = d
  /\ UNCHANGED <<test_mode_file, running, config, valid_compose_keys, state,
                 pressed_keys, current_trigger, current_compose,
                 compose_shifted, compose_start_time, trigger_start_time,
                 now, out, vheld, last, leaked, shift_after,
                 proc, tester, held_on>>

\* a call of reload_config.  load_config returns ("ok"), raises an exception
\* that reload_config catches ("error"), or raises SystemExit, which
\* "except Exception" does not catch: the process ends ("fatal").
ReloadConfig ==
  /\ running
  /\ \E r \in {LoadConfig(config, disk)} :
        /\ config' = r.config
        /\ running' = (r.result # "fatal")
        /\ IF r.result = "ok"
           THEN \E f \in {ForceReleaseAll(Machine, "")} :
                  /\ SetMachine(f.m)
                  /\ out' = f.out
                  /\ vheld' = ApplyWrites(vheld, f.out)
                  /\ now' = Clock(f.m)
           ELSE /\ out' = <<>>
                /\ UNCHANGED <<state, current_trigger, current_compose,
                               compose_shifted, compose_start_time,
                               trigger_start_time, vheld, now>>
        /\ last' = LastRun("reload", None, 0, Machine, r.result)
  /\ UNCHANGED <<disk, test_mode_file, valid_compose_keys, pressed_keys,
                 leaked, shift_after, proc, tester, held_on>>

Next ==
  \/ \E key_code \in Keys, value \in {0, 1, 2} : HandleEvent(key_code, value)
  \/ CheckTimeout
  \/ Tick

\* the keyboard and the clock, under the startup configuration
Spec == Init /\ [][Next]_vars

\* the keyboard of the test-mode and reload specifications
FewKeys == {KEY_LEFTALT, KEY_SEMICOLON, KEY_A}

NextTest ==
  \/ \E key_code \in FewKeys, value \in {0, 1, 2} : HandleEvent(key_code, value)
  \/ StartTest
  \/ StopTest

\* the keyboard while the applet's sequence tester is opened and closed
SpecTest == Init /\ [][NextTest]_vars

NextReload ==
  \/ \E key_code \in FewKeys, value \in {0, 1} : HandleEvent(key_code, value)
  \/ EditDisk
  \/ ReloadConfig

\* the keyboard while the files are edited and reload_config is called
SpecReload == Init /\ [][NextReload]_vars

(***************************************************************************)
(* Startup.  The process starts on a disk of the user's making: the        *)
(* settings, one sequence file of up to MaxEntries entries, and the        *)
(* daemon installed with or without umlaut_paths next to it.               *)
(***************************************************************************)
MaxEntries == 3

\* a text of n characters
LongText(n) == [i \in 1..n |-> "a"]
\* a list of n one-character strings
LongList(n) == [i \in 1..n |-> JStr(<<"a">>)]

\* ";": {"a": "ä", "O": "Ö"}
UmlautGroup ==
  JTargets(<<";">>, <<JTarget(<<"a">>, JStr(<<"ä">>)),
                      JTarget(<<"O">>, JStr(<<"Ö">>))>>)
\* "SHIFT+;": ";"
ShiftAlias == JAlias(<<"SHIFT", ";">>, <<";">>)
\* "'": "SHIFT+;"
ChainedAlias == JAlias(<<"'">>, <<"SHIFT", ";">>)
\* "£": {"a": "a"}
UnknownComposeGroup == JTargets(<<"£">>, <<JTarget(<<"a">>, JStr(<<"a">>))>>)
\* "o": {"£": "a", "a": 10,001 characters, "o": "ö", ";": 11 elements,
\*       "'": 5}
MixedGroup ==
  JTargets(<<"o">>, <<JTarget(<<"£">>, JStr(<<"a">>)),
                      JTarget(<<"a">>, JStr(LongText(MAX_OUTPUT_LENGTH + 1))),
                      JTarget(<<"o">>, JStr(<<"ö">>)),
                      JTarget(<<";">>, JList(LongList(MAX_SEQUENCE_DEPTH + 1))),
                      JTarget(<<"'">>, JNumber)>>)
\* "tab": [1, 2, 3]
ListValued == JOther(<<"tab">>)
\* "KEY_LEFTALT": {"a": "a"}
TriggerGroup == JTargets(<<"KEY_LEFTALT">>, <<JTarget(<<"a">>, JStr(<<"a">>))>>)
\* "a": {"a": 10,000 characters, "o": 10 elements,
\*       ";": {"string": 10,001 characters}, "'": [10,001 characters],
\*       "A": {"key": "KEY_O", "modifiers": ["KEY_LEFTCTRL"]}}
LimitsGroup ==
  JTargets(<<"a">>, <<JTarget(<<"a">>, JStr(LongText(MAX_OUTPUT_LENGTH))),
                      JTarget(<<"o">>, JList(LongList(MAX_SEQUENCE_DEPTH))),
                      JTarget(<<";">>, JString(LongText(MAX_OUTPUT_LENGTH + 1))),
                      JTarget(<<"'">>,
                              JList(<<JStr(LongText(MAX_OUTPUT_LENGTH + 1))>>)),
                      JTarget(<<"A">>, JKey("KEY_O", <<"KEY_LEFTCTRL">>))>>)

\* the entries a sequence file is made of (their names differ)
EntryPool ==
  <<UmlautGroup, ShiftAlias, ChainedAlias, UnknownComposeGroup, MixedGroup,
    ListValued, TriggerGroup, LimitsGroup>>

\* the orders of up to n entries of EntryPool, as lists of their indices
RECURSIVE EntryLists(_)
EntryLists(n) ==
  IF n = 0 THEN {<<>>}
  ELSE EntryLists(n - 1)
       \cup {Append(l, en) : l \in {k \in EntryLists(n - 1) : Len(k) = n - 1},
                             en \in 1..Len(EntryPool)}
\* up to MaxEntries entries in any order (the keys of a JSON object are
\* distinct)
EntryOrders ==
  {k \in EntryLists(MaxEntries) :
     /\ k # <<>>
     /\ \A i, j \in 1..Len(k) : i # j => k[i] # k[j]}
\* the sequence file whose 'sequences' holds the entries of the order k
SequenceFile(k) ==
  [status |-> "ok", sequences |-> [i \in 1..Len(k) |-> EntryPool[k[i]]]]

\* {"trigger_key": ["KEY_LEFTALT", "KEY_RIGHTALT"], ...}
TwoTriggers ==
  Settings("ok", <<"KEY_LEFTALT", "KEY_RIGHTALT">>, <<>>, <<"umlaut">>, "absent")
\* settings without 'trigger_key'
NoTriggerKey == Settings("ok", <<>>, <<>>, <<"umlaut">>, "absent")

\* the settings files of the startup specification
StartupSettings ==
  {StartSettings, TwoTriggers, NoTriggerKey, NoneEnabled, NoLogLevelStr}

\* the state before main() constructs the daemon
InitLoad ==
  /\ \E s \in StartupSettings, k \in EntryOrders, h \in BOOLEAN :
       disk = [settings |-> s, umlaut_paths |-> h,
               files |-> [stem \in {"umlaut", "accent"} |->
                            IF stem = "umlaut" THEN SequenceFile(k)
                            ELSE AccentFile]]
  /\ test_mode_file = FALSE
  /\ running = FALSE
  /\ config = EmptyConfig
  /\ valid_compose_keys = {}
  /\ state = "IDLE"
  /\ pressed_keys = {}
  /\ current_trigger = None
  /\ current_compose = None
  /\ compose_shifted = FALSE
  /\ compose_start_time = 0
  /\ trigger_start_time = 0
  /\ now = 0
  /\ out = <<>>
  /\ vheld = {}
  /\ last = [op |-> "init", key |-> None, value |-> 0, from |-> "IDLE",
             trigger |-> None, compose |-> None, shifted |-> FALSE,
             marker |-> FALSE, config |-> EmptyConfig, log |-> ""]
  /\ leaked = {}
  /\ shift_after = {}
  /\ proc = ProcMain
  /\ tester = NewTester
  /\ held_on = {}

\* main(): UmlautDaemon() constructs UmlautConfig(), whose load_config
\* returns ("ok"), ends the process (_fatal_error, "fatal") or raises
\* ("error"); the daemon then computes valid_compose_keys
Startup ==
  /\ ~running
  /\ last.op = "init"
  /\ \E r \in {LoadConfig(EmptyConfig, disk)} :
        /\ config' = r.config
        /\ running' = (r.result = "ok")
        /\ valid_compose_keys' = ValidComposeKeys(r.config.sequences)
        /\ last' = LastRun("load", None, 0, Machine, r.result)
        /\ proc' = IF r.result = "ok" THEN ProcLoop
                   ELSE [ProcMain EXCEPT !.pc = "exited"]
  /\ UNCHANGED <<disk, test_mode_file, state, pressed_keys, current_trigger,
                 current_compose, compose_shifted, compose_start_time,
                 trigger_start_time, now, out, vheld, leaked, shift_after, tester, held_on>>

NextLoad == Startup

\* the startup load, on every disk of the startup specification
SpecLoad == InitLoad /\ [][NextLoad]_vars


(***************************************************************************)
(* The timeout setting.  The process starts on the startup disk with some  *)
(* value of settings.timeout_ms; the value is edited and reload_config is  *)
(* called.                                                                 *)
(***************************************************************************)
\* the values of settings.timeout_ms: absent, 50, 100, 250, 10000, 10001,
\* 250.9, 99.9, "250", "abc", null, Infinity
TimeoutValues ==
  {[kind |-> "absent", value |-> 0], TInt(50), TInt(MIN_TIMEOUT_MS), TInt(250),
   TInt(MAX_TIMEOUT_MS), TInt(MAX_TIMEOUT_MS + 1), TFloat(2509), TFloat(999),
   TStr(250), TBadStr, TNull, TInfinity}

\* the state before main() constructs the daemon
InitTimeout ==
  /\ \E v \in TimeoutValues :
       disk = WithSettings(WithTimeout(StartSettings, v))
  /\ test_mode_file = FALSE
  /\ running = FALSE
  /\ config = EmptyConfig
  /\ valid_compose_keys = {}
  /\ state = "IDLE"
  /\ pressed_keys = {}
  /\ current_trigger = None
  /\ current_compose = None
  /\ compose_shifted = FALSE
  /\ compose_start_time = 0
  /\ trigger_start_time = 0
  /\ now = 0
  /\ out = <<>>
  /\ vheld = {}
  /\ last = [op |-> "init", key |-> None, value |-> 0, from |-> "IDLE",
             trigger |-> None, compose |-> None, shifted |-> FALSE,
             marker |-> FALSE, config |-> EmptyConfig, log |-> ""]
  /\ leaked = {}
  /\ shift_after = {}
  /\ proc = ProcMain
  /\ tester = NewTester
  /\ held_on = {}

\* the user writes another value of settings.timeout_ms
EditTimeout ==
  /\ running
  /\ \E v \in TimeoutValues :
       /\ v # disk.settings.timeout_ms
       /\ disk' = [disk EXCEPT !.settings.timeout_ms = v]
  /\ last' = LastRun("edit", None, 0, Machine, "")
  /\ UNCHANGED <<test_mode_file, running, config, valid_compose_keys, state,
                 pressed_keys, current_trigger, current_compose,
                 compose_shifted, compose_start_time, trigger_start_time,
                 now, out, vheld, leaked, shift_after, proc, tester, held_on>>

NextTimeout ==
  \/ Startup
  \/ EditTimeout
  \/ ReloadConfig

\* startup and reloads while settings.timeout_ms is edited
SpecTimeout == InitTimeout /\ [][NextTimeout]_vars


(***************************************************************************)
(* Key, sequence and object outputs.  The daemon is installed without      *)
(* umlaut_paths, so that the sequence file is loaded by                    *)
(* _load_single_config, and is started with two trigger keys.              *)
(***************************************************************************)
\* {";": {"a": ["ä", "KEY_O", {"key": "KEY_A", "modifiers": ["KEY_LEFTCTRL"]},
\*              "ö"],
\*        "o": ["KEY_O", "ä"]},
\*  "KEY_RIGHTALT": {"a": "a"}}
StringFirstFile ==
  [status |-> "ok",
   sequences |-> <<
     JTargets(<<";">>,
       <<JTarget(<<"a">>, JList(<<JStr(<<"ä">>), JStr(<<"KEY_O">>),
                                  JKey("KEY_A", <<"KEY_LEFTCTRL">>),
                                  JStr(<<"ö">>)>>)),
         JTarget(<<"o">>, JList(<<JStr(<<"KEY_O">>), JStr(<<"ä">>)>>))>>),
     JTargets(<<"KEY_RIGHTALT">>, <<JTarget(<<"a">>, JStr(<<"a">>))>>) >>]

\* {";": {"a": [{"key": "KEY_A", "modifiers": ["KEY_LEFTCTRL"]}, "KEY_O"],
\*        "o": [{"key": "KEY_O", "modifiers": ["KEY_RIGHTSHIFT"]}, "ö", 5],
\*        "A": {"key": "KEY_A"}}}
KeyFirstFile ==
  [status |-> "ok",
   sequences |-> <<
     JTargets(<<";">>,
       <<JTarget(<<"a">>, JList(<<JKey("KEY_A", <<"KEY_LEFTCTRL">>),
                                  JStr(<<"KEY_O">>)>>)),
         JTarget(<<"o">>, JList(<<JKey("KEY_O", <<"KEY_RIGHTSHIFT">>),
                                  JStr(<<"ö">>), JNumber>>)),
         JTarget(<<"A">>, JKey("KEY_A", <<>>))>>) >>]

\* the keyboard of the output specification
OutputKeys ==
  {KEY_LEFTALT, KEY_RIGHTALT, KEY_SEMICOLON, KEY_A, KEY_O, KEY_LEFTSHIFT}

\* the state before main() constructs the daemon
InitKeys ==
  /\ \E f \in {StringFirstFile, KeyFirstFile} :
       disk = [settings |-> TwoTriggers, umlaut_paths |-> FALSE,
               files |-> [stem \in {"umlaut", "accent"} |->
                            IF stem = "umlaut" THEN f ELSE AccentFile]]
  /\ test_mode_file = FALSE
  /\ running = FALSE
  /\ config = EmptyConfig
  /\ valid_compose_keys = {}
  /\ state = "IDLE"
  /\ pressed_keys = {}
  /\ current_trigger = None
  /\ current_compose = None
  /\ compose_shifted = FALSE
  /\ compose_start_time = 0
  /\ trigger_start_time = 0
  /\ now = 0
  /\ out = <<>>
  /\ vheld = {}
  /\ last = [op |-> "init", key |-> None, value |-> 0, from |-> "IDLE",
             trigger |-> None, compose |-> None, shifted |-> FALSE,
             marker |-> FALSE, config |-> EmptyConfig, log |-> ""]
  /\ leaked = {}
  /\ shift_after = {}
  /\ proc = ProcMain
  /\ tester = NewTester
  /\ held_on = {}

NextKeys ==
  \/ Startup
  \/ \E key_code \in OutputKeys, value \in {0, 1} : HandleEvent(key_code, value)

\* startup and the keyboard, with sequence and key outputs in the table
SpecKeys == InitKeys /\ [][NextKeys]_vars


(***************************************************************************)
(* The life of the process: run() from its first statement to the exit,    *)
(* with signals and with event* nodes created while the loop runs.  A      *)
(* signal is delivered between two statements.                             *)
(***************************************************************************)
\* the keyboards that find_keyboard_devices may find
Keyboards == {"kbd1", "kbd2"}
\* the event* nodes created while the daemon runs: a keyboard that has the
\* keys _check_new_devices asks for, and a mouse
Nodes == {"usbkbd", "mouse"}
\* the name setup_uinput gives the virtual device; a device is named by its
\* name
VirtualKeyboard == "umlaut-virtual-keyboard"

\* MIN_KEYBOARD_KEYS
MIN_KEYBOARD_KEYS == 8

\* device.capabilities(): EV_KEY, EV_REL and EV_ABS present, ABS_X or ABS_Y,
\* a multitouch axis, gamepad buttons, mouse buttons, the number of the ten
\* REAL_KEYBOARD_KEYS and of the six REAL_KEYS of _check_new_devices (which
\* are among the ten).  The virtual device has the keys of the keyboards it
\* was made from; "trackpoint" is a keyboard with a pointing stick on the
\* same node; "remote" is a media remote with Space, Enter, Backspace, 'a'
\* and 'b'.
Caps(dev) ==
  CASE dev = "mouse" ->
         [ev_key |-> TRUE, ev_rel |-> TRUE, ev_abs |-> FALSE,
          abs_xy |-> FALSE, abs_mt |-> FALSE, gamepad |-> FALSE,
          mouse_buttons |-> TRUE, keyboard_keys |-> 0, real_keys |-> 0]
    [] dev = "trackpoint" ->
         [ev_key |-> TRUE, ev_rel |-> TRUE, ev_abs |-> FALSE,
          abs_xy |-> FALSE, abs_mt |-> FALSE, gamepad |-> FALSE,
          mouse_buttons |-> TRUE, keyboard_keys |-> 10, real_keys |-> 6]
    [] dev = "remote" ->
         [ev_key |-> TRUE, ev_rel |-> FALSE, ev_abs |-> FALSE,
          abs_xy |-> FALSE, abs_mt |-> FALSE, gamepad |-> FALSE,
          mouse_buttons |-> FALSE, keyboard_keys |-> 5, real_keys |-> 4]
    [] OTHER ->
         [ev_key |-> TRUE, ev_rel |-> FALSE, ev_abs |-> FALSE,
          abs_xy |-> FALSE, abs_mt |-> FALSE, gamepad |-> FALSE,
          mouse_buttons |-> FALSE, keyboard_keys |-> 10, real_keys |-> 6]

\* a discovery filter that tests the capabilities only, which
\* C21_NeverGrabsVirtualDevice rejects
IsKeyboardByCaps(dev) == Caps(dev).keyboard_keys >= MIN_KEYBOARD_KEYS

\* the filter of find_keyboard_devices: the loop body's 'continue's
IsKeyboard(dev) ==
  /\ dev # VirtualKeyboard
  /\ Caps(dev).ev_key
  /\ ~Caps(dev).ev_rel
  /\ ~(Caps(dev).ev_abs
        /\ (Caps(dev).abs_xy \/ Caps(dev).abs_mt \/ Caps(dev).gamepad))
  /\ ~Caps(dev).mouse_buttons
  /\ Caps(dev).keyboard_keys >= MIN_KEYBOARD_KEYS

\* the filter of _check_new_devices
Qualifies(node) ==
  /\ node # VirtualKeyboard
  /\ Caps(node).ev_key
  /\ Caps(node).real_keys >= 4

\* what the steps of the process leave alone
MachineUnchanged ==
  UNCHANGED <<disk, test_mode_file, config, valid_compose_keys, state,
              pressed_keys, current_trigger, current_compose, compose_shifted,
              compose_start_time, trigger_start_time, now, out, vheld, last,
              leaked, shift_after, tester, held_on>>

\* the daemon has been constructed from StartDisk and run() is called
InitRun ==
  /\ disk = StartDisk
  /\ test_mode_file = FALSE
  /\ running = TRUE
  /\ config = LoadConfig(EmptyConfig, StartDisk).config
  /\ valid_compose_keys = ValidComposeKeys(config.sequences)
  /\ state = "IDLE"
  /\ pressed_keys = {}
  /\ current_trigger = None
  /\ current_compose = None
  /\ compose_shifted = FALSE
  /\ compose_start_time = 0
  /\ trigger_start_time = 0
  /\ now = 0
  /\ out = <<>>
  /\ vheld = {}
  /\ last = [op |-> "init", key |-> None, value |-> 0, from |-> "IDLE",
             trigger |-> None, compose |-> None, shifted |-> FALSE,
             marker |-> FALSE, config |-> EmptyConfig, log |-> ""]
  /\ leaked = {}
  /\ shift_after = {}
  /\ proc = [ProcMain EXCEPT !.pc = "run"]
  /\ tester = NewTester
  /\ held_on = {}

\* self.devices = self.find_keyboard_devices(); without a keyboard run()
\* returns 1
FindKeyboardDevices(listed) ==
  /\ proc.pc = "run"
  /\ \E found \in {{dev \in listed : IsKeyboard(dev)}} :
       /\ proc' = [proc EXCEPT !.devices = found,
                               !.listed = listed,
                               !.pc = IF found = {} THEN "exited"
                                      ELSE "setup_uinput"]
       /\ running' = (found # {})
  /\ MachineUnchanged

\* self.setup_uinput()
SetupUinput ==
  /\ proc.pc = "setup_uinput"
  /\ proc' = [proc EXCEPT !.uinput = TRUE, !.pc = "grab_devices"]
  /\ UNCHANGED running
  /\ MachineUnchanged

\* self.grab_devices()
GrabDevices ==
  /\ proc.pc = "grab_devices"
  /\ proc' = [proc EXCEPT !.grabbed = proc.devices, !.pc = "setup_inotify"]
  /\ UNCHANGED running
  /\ MachineUnchanged

\* self._setup_inotify(): the watch is set up, or an exception leaves
\* self._inotify_fd None
SetupInotify ==
  /\ proc.pc = "setup_inotify"
  /\ \E ok \in BOOLEAN :
       proc' = [proc EXCEPT !.watch = ok,
                            !.inotify_fd = IF ok THEN InotifyFd ELSE NoFd,
                            !.pc = "check_xdotool"]
  /\ UNCHANGED running
  /\ MachineUnchanged

\* self._check_xdotool(), which begins with self._inotify_fd = None
CheckXdotool ==
  /\ proc.pc = "check_xdotool"
  /\ proc' = [proc EXCEPT !.inotify_fd = NoFd, !.pc = "enter_loop"]
  /\ UNCHANGED running
  /\ MachineUnchanged

\* try: device_map = ...; watch_fds = set(device_map.keys()); the inotify
\* descriptor is added if self._inotify_fd is not None
EnterLoop ==
  /\ proc.pc = "enter_loop"
  /\ proc' = [proc EXCEPT
                !.watch_fds = proc.devices
                              \cup (IF proc.inotify_fd # NoFd
                                    THEN {proc.inotify_fd} ELSE {}),
                !.pc = "loop"]
  /\ UNCHANGED running
  /\ MachineUnchanged

\* a keyboard or a mouse is plugged in: the kernel creates its event* node
\* and an open watch queues the creation
CreateNode(node) ==
  /\ proc.pc = "loop"
  /\ node \notin proc.created
  /\ proc' = [proc EXCEPT
                !.created = proc.created \cup {node},
                !.pending = IF proc.watch THEN proc.pending \cup {node}
                            ELSE proc.pending,
                !.iterated = FALSE]
  /\ UNCHANGED running
  /\ MachineUnchanged

\* _check_new_devices: the queued nodes are read; a node with the keys of a
\* keyboard is grabbed and added to self.devices and to device_map
CheckNewDevices(p) ==
  LET new == {node \in p.pending : Qualifies(node)}
  IN [p EXCEPT !.pending = {},
               !.grabbed = p.grabbed \cup new,
               !.devices = p.devices \cup new,
               !.watch_fds = p.devices \cup new
                             \cup (IF p.inotify_fd # NoFd
                                   THEN {p.inotify_fd} ELSE {})]

\* one iteration of the loop in which no keyboard has an event: select
\* returns the inotify descriptor when it is in watch_fds and a creation is
\* queued.  Then 'self._inotify_fd in r' runs _check_new_devices; with
\* self._inotify_fd None the descriptor is looked up in device_map
\* instead, and the KeyError ends the loop.
Select ==
  /\ proc.pc = "loop"
  /\ LET ready == InotifyFd \in proc.watch_fds /\ proc.pending # {}
     IN proc' = IF ~ready THEN [proc EXCEPT !.iterated = TRUE]
                ELSE IF proc.inotify_fd = InotifyFd
                THEN [CheckNewDevices(proc) EXCEPT !.iterated = TRUE]
                ELSE [proc EXCEPT !.pc = "cleanup"]
  /\ UNCHANGED running
  /\ MachineUnchanged

\* a key event read in the loop
LoopEvent(key_code, value) ==
  /\ proc.pc = "loop"
  /\ HandleEvent(key_code, value)

\* SIGTERM or SIGINT: signal_handler calls force_release_all inside
\* try/except (without an open virtual device the write raises) and then
\* sys.exit(0).  The SystemExit is raised in the statement that was
\* interrupted: inside run()'s try it reaches 'finally: self.cleanup()',
\* anywhere else nothing catches it and the process exits.
Signal ==
  /\ proc.pc \notin {"main", "exited"}
  /\ ~proc.signalled
  /\ \E f \in {ForceReleaseAll(Machine, "")} :
       IF proc.uinput
       THEN /\ SetMachine(f.m)
            /\ out' = f.out
            /\ vheld' = ApplyWrites(vheld, f.out)
            /\ now' = Clock(f.m)
       ELSE UNCHANGED <<state, current_trigger, current_compose,
                        compose_shifted, compose_start_time,
                        trigger_start_time, out, vheld, now>>
  /\ last' = LastRun("signal", None, 0, Machine, "")
  /\ proc' = [proc EXCEPT
                !.signalled = proc.pc \notin {"run", "setup_uinput",
                                              "grab_devices"},
                !.released = proc.uinput,
                !.pc = IF proc.pc = "loop" THEN "cleanup" ELSE "exited"]
  /\ running' = (proc.pc = "loop")
  /\ UNCHANGED <<disk, test_mode_file, config, valid_compose_keys,
                 pressed_keys, leaked, shift_after, tester, held_on>>

\* cleanup(): ungrab_devices, close the virtual device, close the
\* devices, and close the inotify descriptor if self._inotify_fd is not None
Cleanup ==
  /\ proc.pc = "cleanup"
  /\ proc' = [proc EXCEPT !.grabbed = {},
                          !.uinput = FALSE,
                          !.watch = IF proc.inotify_fd # NoFd THEN FALSE
                                    ELSE proc.watch,
                          !.pc = "exited"]
  /\ running' = FALSE
  /\ MachineUnchanged

NextRun ==
  \/ \E listed \in SUBSET Keyboards : FindKeyboardDevices(listed)
  \/ SetupUinput
  \/ GrabDevices
  \/ SetupInotify
  \/ CheckXdotool
  \/ EnterLoop
  \/ \E node \in Nodes : CreateNode(node)
  \/ Select
  \/ \E key_code \in FewKeys, value \in {0, 1} : LoopEvent(key_code, value)
  \/ Signal
  \/ Cleanup

\* run() from its call to the exit of the process
SpecRun == InitRun /\ [][NextRun]_vars


(***************************************************************************)
(* Properties.  last is the most recent handler run, out its writes, and   *)
(* state, pressed_keys and vheld are as that run left them.                *)
(***************************************************************************)
\* the machine's fields as the last run found them
LastMachine ==
  [state |-> last.from, current_trigger |-> last.trigger,
   current_compose |-> last.compose, compose_shifted |-> last.shifted,
   compose_start_time |-> 0, trigger_start_time |-> 0]

\* the last run was a press in WAITING_TARGET that reached the table lookup
TargetPress ==
  /\ last.op = "event"
  /\ last.from = "WAITING_TARGET"
  /\ last.value = 1
  /\ last.key \notin ModifierKeys \cup {KEY_ESC}

\* the table entry the last run's target press hit, <<>> if none
LastMatch == MatchedKey(LastMachine, last.key, pressed_keys, config)

\* the key events a replay of trigger and compose key consists of
Replayed(trigger, compose, shifted) ==
  << <<trigger, 1>>, <<trigger, 0>> >>
  \o (IF shifted THEN << <<KEY_LEFTSHIFT, 1>> >> ELSE <<>>)
  \o << <<compose, 1>>, <<compose, 0>> >>
  \o (IF shifted THEN << <<KEY_LEFTSHIFT, 0>> >> ELSE <<>>)

\* ws holds key events and syn() calls only
OnlyKeys(ws) == \A i \in 1..Len(ws) : ws[i].t \in {"key", "syn"}

\* C1: at every completed match (a target press in WAITING_TARGET that hits
\* the sequence table) the handler writes the output's synthesis and
\* nothing else, the target's press is not written, and no press of the
\* trigger and no press or release of the compose key was written since the
\* attempt began, whatever the key events that led from IDLE to the match.
C1_MatchWritesOnlyOutput ==
  (TargetPress /\ LastMatch # <<>>) =>
     /\ out = EmitOutput(config.sequences[LastMatch].output,
                         pressed_keys \cap Shifts # {})
     /\ ~InList(<<last.key, 1>>, KeyWrites(out))
     /\ leaked = {}

\* C2: in IDLE a key event (press, release or repeat) that is not a press
\* of a configured trigger key is written to the virtual device exactly
\* once, with its own code and value, by the run that handles it (so in
\* arrival order), and the state stays IDLE.
C2_IdlePassThrough ==
  (/\ last.op = "event"
   /\ last.from = "IDLE"
   /\ ~(last.value = 1 /\ InList(last.key, config.trigger_keys_list))) =>
     /\ KeyWrites(out) = << <<last.key, last.value>> >>
     /\ OnlyKeys(out)
     /\ state = "IDLE"

\* C2's case: a repeat of the held trigger key arrives in IDLE
C2_Witness ==
  /\ last.op = "event"
  /\ last.from = "IDLE"
  /\ last.key = KEY_LEFTALT
  /\ last.value = 2
  /\ out = <<W(KEY_LEFTALT, 2), SYN>>
  /\ state = "IDLE"

\* C3: a key press in WAITING_TARGET that reaches the lookup (no modifier,
\* not ESC) and matches no table entry, neither directly nor through the
\* unshifted fallback, makes the handler write exactly: trigger press,
\* trigger release, LeftShift press if compose_shifted, compose press,
\* compose release, LeftShift release if compose_shifted, and the target's
\* press, in this order; the state is then IDLE.
C3_NoMatchReplay ==
  (TargetPress /\ LastMatch = <<>>) =>
     /\ KeyWrites(out) =
          Replayed(last.trigger, last.compose, last.shifted)
          \o << <<last.key, 1>> >>
     /\ OnlyKeys(out)
     /\ state = "IDLE"

\* C3's case: Tab does not match after Alt and Shift+;
C3_Witness ==
  /\ TargetPress
  /\ LastMatch = <<>>
  /\ last.key = KEY_TAB
  /\ last.compose = KEY_SEMICOLON
  /\ last.shifted
  /\ Len(KeyWrites(out)) = 7

\* C4: check_timeout firing in WAITING_TARGET writes exactly trigger press,
\* trigger release, compose press, compose release, the compose pair
\* between a LeftShift press and release if compose_shifted, and nothing
\* else, and the state becomes IDLE.
C4_ComposeTimeoutReplay ==
  (last.op = "timeout" /\ last.from = "WAITING_TARGET") =>
     /\ KeyWrites(out) = Replayed(last.trigger, last.compose, last.shifted)
     /\ OnlyKeys(out)
     /\ state = "IDLE"

\* C4's case: the deadline passes after Alt and Shift+;
C4_Witness ==
  /\ last.op = "timeout"
  /\ last.from = "WAITING_TARGET"
  /\ last.compose = KEY_SEMICOLON
  /\ last.shifted
  /\ Len(KeyWrites(out)) = 6
  /\ state = "IDLE"

\* the last run was an ESC press outside IDLE
EscPress ==
  /\ last.op = "event"
  /\ last.key = KEY_ESC
  /\ last.value = 1
  /\ last.from # "IDLE"

\* C5: after an ESC press handled outside IDLE, a release of
\* current_trigger, of current_compose (when set) and of both Shift keys
\* has been written, none of these keys is held on the virtual device, no
\* ESC event has been written, and the machine is IDLE for the next event.
C5_EscForceRelease ==
  EscPress =>
     /\ \A k \in ({last.trigger, last.compose} \ {None}) \cup Shifts :
          /\ InList(<<k, 0>>, KeyWrites(out))
          /\ k \notin vheld
     /\ \A i \in 1..Len(out) : out[i].code # KEY_ESC
     /\ state = "IDLE"

\* C5's case: ESC in COMPOSE_PRESSED while Shift, pressed before the
\* trigger and so down on the virtual device, is still held
C5_Witness ==
  /\ EscPress
  /\ last.from = "COMPOSE_PRESSED"
  /\ last.shifted
  /\ KEY_LEFTSHIFT \in pressed_keys
  /\ Len(KeyWrites(out)) = 4

\* C6: when a key press aborts the attempt in TRIGGER_PRESSED by passing
\* through (a passthrough key, Ctrl or Meta, or a key without sequences),
\* the trigger, the aborting key and every Shift key pressed after the
\* trigger and still held are down on the virtual device.
C6_AbortReplaysHeldKeys ==
  (/\ last.op = "event"
   /\ last.from = "TRIGGER_PRESSED"
   /\ last.value = 1
   /\ last.key # KEY_ESC
   /\ state = "IDLE") =>
     ({last.trigger, last.key} \cup shift_after) \subseteq vheld

\* C7: while the test-mode marker file is present every key event is
\* written to the virtual device unchanged, and an event that finds the
\* machine IDLE leaves it IDLE.
C7_TestModeBypass ==
  (last.op = "event" /\ last.marker) =>
     /\ KeyWrites(out) = << <<last.key, last.value>> >>
     /\ last.from = "IDLE" => state = "IDLE"

\* C8: after a reload that failed, the trigger keys, the passthrough keys
\* and the sequence table are those in effect before it, and the daemon
\* is running.
C8_FailedReloadKeepsConfig ==
  (last.op = "reload" /\ last.log # "ok") =>
     /\ config = last.config
     /\ running

\* C9: after the initial load and after every reload that succeeded,
\* valid_compose_keys is the set of the compose key codes (third element)
\* of the tuples of the sequence table.
C9_ValidComposeKeysCurrent ==
  (last.op = "init" \/ (last.op = "reload" /\ last.log = "ok")) =>
     valid_compose_keys = {t[3] : t \in DOMAIN config.sequences}

\* C10: load_config, run on the files on disk or on the files the daemon
\* started from, whatever configuration it finds in memory, gives a result
\* that a second run on the same files repeats: the same lookup tuples with
\* the same outputs, the same trigger keys and the same passthrough keys;
\* and on the startup files it gives the startup configuration.
C10_ReloadIdempotent ==
  \A d \in {disk, StartDisk} :
    LET once == LoadConfig(config, d)
    IN once.result = "ok" =>
         /\ LoadConfig(once.config, d) = once
         /\ d = StartDisk => once.config = LoadConfig(EmptyConfig, StartDisk).config

\* C10's case: reload_config has run twice on the files that enable both
\* sequence files, and the second run left the configuration as it was
C10_Witness ==
  /\ last.op = "reload"
  /\ last.log = "ok"
  /\ disk = WithSettings(BothEnabled)
  /\ config = LoadConfig(EmptyConfig, disk).config
  /\ last.config = config
  /\ config # LoadConfig(EmptyConfig, StartDisk).config

\* C11: load_config ends without a fatal error only if trigger_keys_list
\* and the sequence table are both non-empty; when the files have been
\* processed and either is empty, the load ends in the fatal error and the
\* process does not run.
C11_FatalWhenEmpty ==
  last.op = "load" =>
    /\ last.log = "ok" =>
         config.trigger_keys_list # <<>> /\ DOMAIN config.sequences # {}
    /\ (last.log # "error"
        /\ (config.trigger_keys_list = <<>> \/ DOMAIN config.sequences = {}))
       => last.log = "fatal" /\ ~running

\* a startup whose settings name a trigger key and whose sequence file
\* yields no tuple ends in the fatal error
C11_Witness ==
  /\ last.op = "load"
  /\ last.log = "fatal"
  /\ config.trigger_keys_list # <<>>
  /\ DOMAIN config.sequences = {}

\* the sequence file of the startup specification, and whether the startup
\* load read it
LoadedFile == disk.files["umlaut"]
FileWasRead ==
  /\ last.op = "load"
  /\ last.log # "error"
  /\ InList("umlaut", disk.settings.enabled_sequences)

\* a well-formed target of a well-formed group: the compose key name and the
\* target name are known, the output is a string within the length limit
WellFormedGroup(en) ==
  /\ en.kind = "dict"
  /\ ~Raised(ParseTargetKey(IF HasShiftPrefix(en.name) THEN Tail(en.name)
                            ELSE en.name))
WellFormedTarget(t) ==
  /\ ~Raised(ParseTargetKey(t.name))
  /\ t.output.kind = "str"
  /\ Len(t.output.text) <= MAX_OUTPUT_LENGTH

\* the table holds, for every trigger, the tuple of target t under the
\* compose key name, with the output of t
InTable(name, t) ==
  LET shifted == HasShiftPrefix(name)
      ccode == ParseTargetKey(IF shifted THEN Tail(name) ELSE name)[1]
  IN \A i \in 1..Len(config.trigger_keys_list) :
       LET k == LookupKey(config.trigger_keys_list[i], shifted, ccode,
                          ParseTargetKey(t.name))
       IN /\ k \in DOMAIN config.sequences
          /\ config.sequences[k].output = ParseOutput(t.output)

\* C12: a malformed entry never aborts loading: every well-formed target of
\* every well-formed group of the file, before and after a malformed entry,
\* is in the sequence table after the load.
C12_MalformedEntryDropsOnlyItself ==
  FileWasRead =>
    \A i \in 1..Len(LoadedFile.sequences) :
      LET en == LoadedFile.sequences[i]
      IN WellFormedGroup(en) =>
           \A j \in 1..Len(en.targets) :
             WellFormedTarget(en.targets[j]) => InTable(en.name, en.targets[j])

\* the same, for the daemon installed with umlaut_paths next to it
C12_HoldsWithUmlautPaths ==
  disk.umlaut_paths => C12_MalformedEntryDropsOnlyItself

\* the configured settings.timeout_ms is an integer within [100, 10000]
TimeoutAcceptable(v) ==
  v.kind = "int" /\ MIN_TIMEOUT_MS <= v.value /\ v.value <= MAX_TIMEOUT_MS

\* C13: after any load or reload timeout_ms is within [100, 10000], and a
\* configured settings.timeout_ms that is outside the range or not an
\* integer is rejected: the default of 1000 ms is in effect.
C13_TimeoutInRangeOrDefault ==
  (last.op \in {"load", "reload"} /\ last.log = "ok") =>
    /\ MIN_TIMEOUT_MS <= config.timeout_ms
    /\ config.timeout_ms <= MAX_TIMEOUT_MS
    /\ (disk.settings.timeout_ms.kind # "absent"
        /\ ~TimeoutAcceptable(disk.settings.timeout_ms))
       => config.timeout_ms = DEFAULT_TIMEOUT_MS

\* the part of C13 that the code keeps: timeout_ms is within the range
\* after every load and reload, however it ended
C13_TimeoutInRange ==
  MIN_TIMEOUT_MS <= config.timeout_ms /\ config.timeout_ms <= MAX_TIMEOUT_MS

\* the startup load alone: a value that int() raises on, or an integer
\* outside the range, leaves the default
C13_StartupRejects ==
  (last.op = "load" /\ last.log = "ok"
   /\ disk.settings.timeout_ms.kind \in {"int", "badstr", "null"}
   /\ ~TimeoutAcceptable(disk.settings.timeout_ms))
  => config.timeout_ms = DEFAULT_TIMEOUT_MS

\* the payload of a stored output action is within the validation limits
String_ok(action) ==
  action.action_type = "string" => Len(action.text) <= MAX_OUTPUT_LENGTH
WithinLimits(action) ==
  /\ String_ok(action)
  /\ action.action_type = "sequence" =>
       /\ Len(action.actions) <= MAX_SEQUENCE_DEPTH
       /\ \A i \in 1..Len(action.actions) : String_ok(action.actions[i])

\* the table holds a tuple for target t of the group named name
HasTuple(name, t) ==
  \E k \in DOMAIN config.sequences :
    /\ config.sequences[k].compose_key = ParseTargetKey(name)[1]
    /\ config.sequences[k].target_keys = ParseTargetKey(t)

\* the sequence file holds the entry en
InFile(en) == InList(en, LoadedFile.sequences)

\* C14: every output action stored in the sequence table respects the
\* limits (a String payload, plain, from a {string: ...} object or as an
\* element of a list, has at most 10,000 characters; a Sequence at most 10
\* elements); a string of 10,000 characters and a list of 10 elements
\* load, 10,001 characters and 11 elements are rejected.
C14_OutputsWithinLimits ==
  /\ \A k \in DOMAIN config.sequences : WithinLimits(config.sequences[k].output)
  /\ (FileWasRead /\ config.trigger_keys_list # <<>> /\ InFile(LimitsGroup)) =>
       HasTuple(<<"a">>, <<"a">>) /\ HasTuple(<<"a">>, <<"o">>)
  /\ (FileWasRead /\ InFile(MixedGroup)) =>
       ~HasTuple(<<"o">>, <<"a">>) /\ ~HasTuple(<<"o">>, <<";">>)

\* the limits that _parse_output does check: the number of elements of a
\* list, and the length of a plain string output
C14_CheckedLimits ==
  /\ \A k \in DOMAIN config.sequences :
       config.sequences[k].output.action_type = "sequence" =>
         Len(config.sequences[k].output.actions) <= MAX_SEQUENCE_DEPTH
  /\ (FileWasRead /\ InFile(MixedGroup)) =>
       ~HasTuple(<<"o">>, <<"a">>) /\ ~HasTuple(<<"o">>, <<";">>)

\* where load_sequence_config cleans the file every stored payload is
\* within the limits, for no list and no object reaches _parse_output
C14_WithinLimitsWithUmlautPaths ==
  disk.umlaut_paths =>
    \A k \in DOMAIN config.sequences : WithinLimits(config.sequences[k].output)

\* and there a list of 10 elements does not load: every stored output is a
\* String
C14_OnlyStringsWithUmlautPaths ==
  disk.umlaut_paths =>
    \A k \in DOMAIN config.sequences :
      config.sequences[k].output.action_type = "string"

\* the entry en is an alias whose own compose key is known and whose value
\* names a targets object of the same file
AliasOfGroup(en) ==
  /\ en.kind = "alias"
  /\ ~Raised(ParseTargetKey(IF HasShiftPrefix(en.name) THEN Tail(en.name)
                            ELSE en.name))
  /\ en.alias \in EntryNames(LoadedFile.sequences)
  /\ EntryNamed(LoadedFile.sequences, en.alias).kind = "dict"

\* C15: an alias entry reuses the targets of the entry it names: for every
\* target/output pair of that group and every trigger the table holds a
\* tuple under the alias's own compose key and SHIFT flag with the same
\* target keys and the same output.
C15_AliasReusesTargets ==
  FileWasRead =>
    \A i \in 1..Len(LoadedFile.sequences) :
      LET en == LoadedFile.sequences[i]
      IN AliasOfGroup(en) =>
           LET targets == EntryNamed(LoadedFile.sequences, en.alias).targets
           IN \A j \in 1..Len(targets) :
                WellFormedTarget(targets[j]) => InTable(en.name, targets[j])

\* the same for the files without a value that has no items(), whose
\* AttributeError ends the load (see C12)
C15_AliasReusesTargetsUnlessAborted ==
  (disk.umlaut_paths \/ ~InFile(ListValued)) => C15_AliasReusesTargets

\* an alias under SHIFT+; has put the targets of ';' into the table
C15_Reached ==
  /\ FileWasRead
  /\ InFile(ShiftAlias) /\ InFile(UmlautGroup)
  /\ Len(config.trigger_keys_list) = 2
  /\ \A i \in 1..2 :
       <<config.trigger_keys_list[i], TRUE, KEY_SEMICOLON, KEY_A>>
         \in DOMAIN config.sequences

\* the entry en of the file is an alias that names a missing compose key or
\* another alias
BrokenOrChained(en) ==
  /\ en.kind = "alias"
  /\ \/ en.alias \notin EntryNames(LoadedFile.sequences)
     \/ EntryNamed(LoadedFile.sequences, en.alias).kind = "alias"

\* the table holds a tuple under the compose key named name
HasTupleUnder(name) ==
  LET shifted == HasShiftPrefix(name)
      ccode == ParseTargetKey(IF shifted THEN Tail(name) ELSE name)
  IN \E k \in DOMAIN config.sequences : k[2] = shifted /\ k[3] = ccode[1]

\* C16: chained and broken aliases are rejected whatever the order of the
\* entries: every alias kept in the cleaned result of load_sequence_config
\* names an entry whose value is a targets object, an alias that names a
\* missing compose key or another alias contributes no tuple to the table,
\* and only that alias is dropped.
C16_ChainedAndBrokenAliasesRejected ==
  /\ (FileWasRead /\ disk.umlaut_paths) =>
       LET cleaned == LoadSequenceConfig(LoadedFile)
       IN \A i \in 1..Len(cleaned) :
            cleaned[i].kind = "alias" =>
              /\ cleaned[i].alias \in EntryNames(cleaned)
              /\ EntryNamed(cleaned, cleaned[i].alias).kind = "dict"
  /\ FileWasRead =>
       \A i \in 1..Len(LoadedFile.sequences) :
         BrokenOrChained(LoadedFile.sequences[i]) =>
           ~HasTupleUnder(LoadedFile.sequences[i].name)
  /\ (FileWasRead /\ ~InFile(ListValued)) => C12_MalformedEntryDropsOnlyItself

\* the parts of C16 that the code keeps: a chained or broken alias
\* contributes no tuple, and a broken alias is never in the cleaned result
C16_NoTupleFromBrokenAlias ==
  /\ (FileWasRead /\ disk.umlaut_paths) =>
       LET cleaned == LoadSequenceConfig(LoadedFile)
       IN \A i \in 1..Len(cleaned) :
            cleaned[i].kind = "alias" => cleaned[i].alias \in EntryNames(cleaned)
  /\ FileWasRead =>
       \A i \in 1..Len(LoadedFile.sequences) :
         BrokenOrChained(LoadedFile.sequences[i]) =>
           ~HasTupleUnder(LoadedFile.sequences[i].name)
  /\ (FileWasRead /\ ~InFile(ListValued)) => C12_MalformedEntryDropsOnlyItself

\* C17: no compose key is itself a trigger key: after a load no tuple of
\* the sequence table has a compose key that is in trigger_keys_list, and
\* the state machine never sets current_compose to a configured trigger key.
C17_ComposeKeyIsNoTrigger ==
  /\ \A k \in DOMAIN config.sequences : ~InList(k[3], config.trigger_keys_list)
  /\ current_compose # None => ~InList(current_compose, config.trigger_keys_list)

\* the state machine alone: current_compose is never a configured trigger
\* key
C17_CurrentComposeIsNoTrigger ==
  current_compose # None => ~InList(current_compose, config.trigger_keys_list)

\* the last run matched a Sequence output while a Shift key was held
ShiftedSequenceMatch ==
  /\ TargetPress
  /\ LastMatch # <<>>
  /\ config.sequences[LastMatch].output.action_type = "sequence"
  /\ pressed_keys \cap Shifts # {}

\* an element emitted shifted: a String upper-cased, a key with LeftShift
\* added to its modifiers unless a Shift is among them
FirstShifted(action) ==
  IF action.action_type = "string" THEN EmitString(UpperText(action.text))
  ELSE LET mods == IF \E i \in 1..Len(action.modifiers) :
                        action.modifiers[i] \in Shifts
                   THEN action.modifiers
                   ELSE Append(action.modifiers, KEY_LEFTSHIFT)
       IN EmitKey(action.key, 1, mods) \o EmitKey(action.key, 0, mods)

\* the elements from the i-th on, each emitted as with target_shifted false
RECURSIVE RestUnshifted(_, _)
RestUnshifted(actions, i) ==
  IF i > Len(actions) THEN <<>>
  ELSE EmitOutput(actions[i], FALSE) \o RestUnshifted(actions, i + 1)

\* C20: emit_output with target_shifted true on a Sequence applies the
\* shift to the first element only: the first element is emitted shifted
\* and every later element exactly as with target_shifted false.
C20_ShiftFirstElementOnly ==
  ShiftedSequenceMatch =>
    LET actions == config.sequences[LastMatch].output.actions
    IN out = (IF actions = <<>> THEN <<>> ELSE FirstShifted(actions[1]))
             \o RestUnshifted(actions, 2)

\* a shifted match of a Sequence whose later elements would be emitted
\* differently if the shift were applied to them
C20_Witness ==
  /\ ShiftedSequenceMatch
  /\ LET actions == config.sequences[LastMatch].output.actions
     IN /\ Len(actions) >= 3
        /\ \A i \in 2..Len(actions) :
             EmitOutput(actions[i], TRUE) # EmitOutput(actions[i], FALSE)
        /\ out # <<>>

\* C18: when SIGTERM or SIGINT arrives at any point after the keyboards
\* have been grabbed, the daemon force-releases the concealed keys, ungrabs
\* every grabbed device, closes the virtual device and the directory watch
\* and then exits: it never exits leaving a device grabbed.
C18_SignalCleansUp ==
  (proc.pc = "exited" /\ proc.signalled) =>
    /\ proc.released
    /\ proc.grabbed = {}
    /\ ~proc.uinput
    /\ ~proc.watch

\* the part of C18 that the code keeps: the handler force-releases on the
\* open virtual device before the process exits
C18_SignalForceReleases ==
  (proc.pc \in {"cleanup", "exited"} /\ proc.signalled) =>
    proc.released /\ state = "IDLE"

\* C19: hotplug works while the daemon runs: when the directory watch was
\* set up at startup, the creation of an event* node of a qualifying
\* keyboard is observed by the event loop (by the next select at the
\* latest), the device is grabbed and its descriptor is in the watched
\* set, also after key events and output syntheses.
C19_HotplugObserved ==
  (proc.pc = "loop" /\ proc.watch /\ proc.iterated
   /\ "usbkbd" \in proc.created)
  => "usbkbd" \in proc.grabbed /\ "usbkbd" \in proc.watch_fds

\* in the loop self._inotify_fd is None and the inotify descriptor is not
\* in the set given to select, whether or not the watch was set up
C19_WatchNeverSelected ==
  proc.pc = "loop" => proc.inotify_fd = NoFd /\ InotifyFd \notin proc.watch_fds

\* ---------------------------------------------------------------------------
\* SpecHotplug: the device set.  run()'s setup up to _setup_inotify, over
\* every listing evdev.list_devices() can return, a device that carries the
\* virtual keyboard's name and a mouse included; then event* nodes are
\* created and _check_new_devices is called with the watch _setup_inotify
\* left, as the loop's branch 'self._inotify_fd in r' calls it.
\* ---------------------------------------------------------------------------

\* what evdev.list_devices() may list at startup
Present == Keyboards \cup {VirtualKeyboard, "mouse", "trackpoint"}

\* the event* nodes that may appear afterwards
HotplugNodes == Nodes \cup {VirtualKeyboard, "trackpoint", "remote"}

\* nodes are created in /dev/input; _drain_inotify returns their names when
\* the watch exists; _check_new_devices runs on them
HotplugCheck(nodes) ==
  /\ proc.pc = "check_xdotool"
  /\ nodes # {}
  /\ nodes \cap proc.created = {}
  /\ proc' = CheckNewDevices([proc EXCEPT
                !.created = @ \cup nodes,
                !.pending = IF proc.inotify_fd # NoFd THEN nodes ELSE {}])
  /\ UNCHANGED running
  /\ MachineUnchanged

NextHotplug ==
  \/ \E listed \in SUBSET Present : FindKeyboardDevices(listed)
  \/ SetupUinput
  \/ GrabDevices
  \/ SetupInotify
  \/ \E nodes \in SUBSET HotplugNodes : HotplugCheck(nodes)

SpecHotplug == InitRun /\ [][NextHotplug]_vars

\* C21: the daemon never grabs its own virtual device: neither the startup
\* discovery nor the hotplug check takes a device named
\* 'umlaut-virtual-keyboard' into the device set or grabs it
C21_NeverGrabsVirtualDevice ==
  /\ VirtualKeyboard \notin proc.devices
  /\ VirtualKeyboard \notin proc.grabbed

\* the virtual device's name was listed at startup and its node was reported
\* by the watch, while a hotplugged keyboard was grabbed
C21_Witness ==
  /\ VirtualKeyboard \in proc.listed
  /\ VirtualKeyboard \in proc.created
  /\ proc.inotify_fd # NoFd
  /\ "usbkbd" \in proc.grabbed
  /\ proc.pending = {}

\* ---------------------------------------------------------------------------
\* SpecMods: the keyboard with both Ctrl and both Meta keys, under the start
\* configuration (trigger LeftAlt, compose key ';'); no time passes.
\* ---------------------------------------------------------------------------

ModKeys ==
  {KEY_LEFTALT, KEY_SEMICOLON, KEY_A, KEY_ESC, KEY_LEFTCTRL, KEY_RIGHTCTRL,
   KEY_LEFTMETA, KEY_RIGHTMETA}

NextMods ==
  \E key_code \in ModKeys, value \in {0, 1} : HandleEvent(key_code, value)

SpecMods == Init /\ [][NextMods]_vars

\* the step is handle_event's for the press of key_code
PressStep(key_code) ==
  /\ key_code \notin pressed_keys
  /\ key_code \in pressed_keys'
  /\ last'.op = "event"
  /\ last'.key = key_code
  /\ last'.value = 1

\* C22: in IDLE, a trigger-key press while LeftCtrl, RightCtrl, LeftMeta or
\* RightMeta is held is written to the virtual device as it came, and the
\* state, current_trigger, current_compose, compose_shifted and both
\* timestamps stay as they were
C22_TriggerWithOtherModifiers ==
  [][\A key_code \in ModKeys :
       (/\ state = "IDLE"
        /\ PressStep(key_code)
        /\ InList(key_code, config.trigger_keys_list)
        /\ pressed_keys \cap (Ctrls \cup Metas) # {})
       => /\ out' = <<W(key_code, 1)>>
          /\ UNCHANGED <<state, current_trigger, current_compose,
                         compose_shifted, compose_start_time,
                         trigger_start_time>>]_vars

\* LeftAlt was pressed in IDLE with a Meta key held and was forwarded
C22_Witness ==
  /\ last.op = "event"
  /\ last.from = "IDLE"
  /\ last.key = KEY_LEFTALT
  /\ last.value = 1
  /\ pressed_keys \cap Metas # {}
  /\ pressed_keys \cap Ctrls = {}
  /\ out = <<W(KEY_LEFTALT, 1)>>
  /\ KEY_LEFTALT \in vheld

\* ---------------------------------------------------------------------------
\* SpecPass: startup and the keyboard under settings whose passthrough keys
\* are Tab, LeftShift and the compose key ';'.
\* ---------------------------------------------------------------------------

\* the state before main() constructs the daemon, with these files on disk
InitDisk(d) ==
  /\ disk = d
  /\ test_mode_file = FALSE
  /\ running = FALSE
  /\ config = EmptyConfig
  /\ valid_compose_keys = {}
  /\ state = "IDLE"
  /\ pressed_keys = {}
  /\ current_trigger = None
  /\ current_compose = None
  /\ compose_shifted = FALSE
  /\ compose_start_time = 0
  /\ trigger_start_time = 0
  /\ now = 0
  /\ out = <<>>
  /\ vheld = {}
  /\ last = [op |-> "init", key |-> None, value |-> 0, from |-> "IDLE",
             trigger |-> None, compose |-> None, shifted |-> FALSE,
             marker |-> FALSE, config |-> EmptyConfig, log |-> ""]
  /\ leaked = {}
  /\ shift_after = {}
  /\ proc = ProcMain
  /\ tester = NewTester
  /\ held_on = {}

\* {"trigger_key": "KEY_LEFTALT",
\*  "passthrough_keys": ["KEY_TAB", "KEY_LEFTSHIFT", ";"],
\*  "enabled_sequences": ["umlaut"]}
PassSettings ==
  Settings("ok", <<"KEY_LEFTALT">>,
           << <<"KEY_TAB">>, <<"KEY_LEFTSHIFT">>, <<";">> >>,
           <<"umlaut">>, "absent")

PassKeys == {KEY_LEFTALT, KEY_SEMICOLON, KEY_TAB, KEY_LEFTSHIFT, KEY_A}

NextPass ==
  \/ Startup
  \/ \E key_code \in PassKeys, value \in {0, 1, 2} : HandleEvent(key_code, value)

SpecPass == InitDisk([StartDisk EXCEPT !.settings = PassSettings])
            /\ [][NextPass]_vars

\* the last event was the press of a passthrough key in TRIGGER_PRESSED
PassthroughPress ==
  /\ last.op = "event"
  /\ last.from = "TRIGGER_PRESSED"
  /\ last.value = 1
  /\ InList(last.key, config.passthrough_keys)

\* C23: in TRIGGER_PRESSED the press of any key in passthrough_keys, a
\* modifier or a key with sequences included, writes the trigger press and
\* then the key press, resets the state to IDLE and does not make the key the
\* compose key
C23_PassthroughAborts ==
  PassthroughPress
  => /\ out = <<W(last.trigger, 1), SYN, W(last.key, 1), SYN>>
     /\ state = "IDLE"
     /\ current_compose # last.key

\* the same for the passthrough keys that are no Shift key: it holds, for the
\* compose key ';' too
C23_PassthroughAbortsUnlessShift ==
  (PassthroughPress /\ last.key \notin Shifts) => C23_PassthroughAborts

\* the last event was the press, in TRIGGER_PRESSED, of a key that is not the
\* trigger, not a Shift key and not in valid_compose_keys.  ESC is left to
\* the rule that precedes the per-state rules (C5).
NonComposePress ==
  /\ last.op = "event"
  /\ last.from = "TRIGGER_PRESSED"
  /\ last.value = 1
  /\ last.key # last.trigger
  /\ last.key \notin Shifts
  /\ last.key \notin valid_compose_keys
  /\ last.key # KEY_ESC

\* C24: in TRIGGER_PRESSED the press of a key that is neither the trigger nor
\* Shift and is not in valid_compose_keys (Ctrl and Meta included) writes
\* exactly the trigger press followed by the key press and resets the state
\* to IDLE, with the trigger down on the virtual device; the trigger release
\* that then arrives in IDLE is forwarded, and the trigger is no longer down
\* on the virtual device
C24_NonComposeKeyAborts ==
  /\ NonComposePress
     => /\ out = <<W(last.trigger, 1), SYN, W(last.key, 1), SYN>>
        /\ state = "IDLE"
        /\ last.trigger \in vheld
  /\ (/\ last.op = "event"
      /\ last.from = "IDLE"
      /\ last.value = 0
      /\ InList(last.key, config.trigger_keys_list))
     => /\ out = <<W(last.key, 0), SYN>>
        /\ last.key \notin vheld

\* RightMeta aborted the compose attempt and the trigger was then released:
\* the virtual device holds RightMeta alone
C24_Witness ==
  /\ last.op = "event"
  /\ last.from = "IDLE"
  /\ last.key = KEY_LEFTALT
  /\ last.value = 0
  /\ pressed_keys = {KEY_RIGHTMETA}
  /\ vheld = {KEY_RIGHTMETA}
  /\ out = <<W(KEY_LEFTALT, 0), SYN>>

\* ---------------------------------------------------------------------------
\* SpecFew: the trigger, the compose key and a target key, with the clock
\* and the loop's timeout check.
\* ---------------------------------------------------------------------------

NextFew ==
  \/ \E key_code \in FewKeys, value \in {0, 1, 2} : HandleEvent(key_code, value)
  \/ CheckTimeout
  \/ Tick

SpecFew == Init /\ [][NextFew]_vars

\* the step is handle_event's for the release of key_code
ReleaseStep(key_code) ==
  /\ key_code \in pressed_keys
  /\ key_code \notin pressed_keys'
  /\ last'.op = "event"
  /\ last'.key = key_code
  /\ last'.value = 0

\* the step is check_timeout's, and it ended the compose attempt
TimeoutStep ==
  /\ state # "IDLE"
  /\ state' = "IDLE"
  /\ last'.op = "timeout"

\* C25: a compose attempt that ends in TRIGGER_PRESSED, by the release of
\* current_trigger or by the timeout check once timeout_sec has passed since
\* trigger_start_time, writes exactly the trigger press followed by the
\* trigger release and resets the state to IDLE; the timeout check ends it no
\* earlier
C25_TriggerTapOnEarlyEnd ==
  [][state = "TRIGGER_PRESSED"
     => /\ (ReleaseStep(current_trigger) \/ TimeoutStep)
           => /\ out' = <<W(current_trigger, 1), SYN,
                          W(current_trigger, 0), SYN>>
              /\ state' = "IDLE"
        /\ TimeoutStep => now - trigger_start_time >= timeout_sec]_vars

\* the timeout check ended TRIGGER_PRESSED with the trigger still held
C25_Witness ==
  /\ last.op = "timeout"
  /\ last.from = "TRIGGER_PRESSED"
  /\ last.trigger = KEY_LEFTALT
  /\ KEY_LEFTALT \in pressed_keys
  /\ state = "IDLE"
  /\ out = <<W(KEY_LEFTALT, 1), SYN, W(KEY_LEFTALT, 0), SYN>>
  /\ vheld = {}

\* ---------------------------------------------------------------------------
\* SpecTarget: startup and the keyboard with both Shift keys and a Ctrl key,
\* under a sequence file whose targets are plain, upper-case and modifier
\* combinations.
\* ---------------------------------------------------------------------------

\* {";": {"a": "ä", "A": "Á", "o": "ö",
\*        "SHIFT+CTRL+a": "£", "CTRL+SHIFT+o": "á"}}
TargetFile ==
  [status |-> "ok",
   sequences |-> <<
     JTargets(<<";">>,
       <<JTarget(<<"a">>, JStr(<<"ä">>)),
         JTarget(<<"A">>, JStr(<<"Á">>)),
         JTarget(<<"o">>, JStr(<<"ö">>)),
         JTarget(<<"SHIFT", "CTRL", "a">>, JStr(<<"£">>)),
         JTarget(<<"CTRL", "SHIFT", "o">>, JStr(<<"á">>))>>) >>]

TargetDisk ==
  [StartDisk EXCEPT !.files = [stem \in {"umlaut", "accent"} |->
                                 IF stem = "umlaut" THEN TargetFile
                                 ELSE AccentFile]]

TargetKeyboard ==
  {KEY_LEFTALT, KEY_SEMICOLON, KEY_A, KEY_O, KEY_LEFTSHIFT, KEY_RIGHTSHIFT,
   KEY_LEFTCTRL}

NextTarget ==
  \/ Startup
  \/ \E key_code \in TargetKeyboard, value \in {0, 1} :
       HandleEvent(key_code, value)

SpecTarget == InitDisk(TargetDisk) /\ [][NextTarget]_vars

\* key_code reaches the compose rule of TRIGGER_PRESSED: the rules for ESC,
\* for Shift, Ctrl and Meta keys that are no trigger, and for passthrough keys
\* come before it
ReachesComposeRule(key_code) ==
  /\ key_code # KEY_ESC
  /\ key_code # current_trigger
  /\ key_code \notin {KEY_LEFTSHIFT, KEY_RIGHTSHIFT, KEY_LEFTCTRL,
                      KEY_RIGHTCTRL, KEY_LEFTMETA, KEY_RIGHTMETA}
     \/ InList(key_code, config.trigger_keys_list)
  /\ ~InList(key_code, config.passthrough_keys)

\* C26: in TRIGGER_PRESSED the press of a key in valid_compose_keys that is
\* no passthrough key sets current_compose to the key, sets compose_shifted
\* to true exactly when LeftShift or RightShift is in pressed_keys, moves to
\* COMPOSE_PRESSED and writes nothing; the trigger and its time stay
C26_ComposeKeyPress ==
  [][\A key_code \in valid_compose_keys :
       (/\ state = "TRIGGER_PRESSED"
        /\ PressStep(key_code)
        /\ ReachesComposeRule(key_code))
       => /\ current_compose' = key_code
          /\ compose_shifted' = (KEY_LEFTSHIFT \in pressed_keys'
                                 \/ KEY_RIGHTSHIFT \in pressed_keys')
          /\ state' = "COMPOSE_PRESSED"
          /\ out' = <<>>
          /\ vheld' = vheld
          /\ UNCHANGED <<current_trigger, trigger_start_time>>]_vars

\* ';' was pressed in TRIGGER_PRESSED with RightShift alone held
C26_Witness ==
  /\ last.op = "event"
  /\ last.from = "TRIGGER_PRESSED"
  /\ last.key = KEY_SEMICOLON
  /\ last.value = 1
  /\ pressed_keys = {KEY_LEFTALT, KEY_RIGHTSHIFT, KEY_SEMICOLON}
  /\ state = "COMPOSE_PRESSED"
  /\ current_compose = KEY_SEMICOLON
  /\ compose_shifted

\* the step is handle_event's for the release of the trigger or of the
\* compose key
TriggerOrComposeRelease ==
  ReleaseStep(current_trigger) \/ ReleaseStep(current_compose)

\* C27: WAITING_TARGET is entered only from COMPOSE_PRESSED, only by a
\* release of current_trigger or current_compose, and only when neither key
\* is in pressed_keys; the entry sets compose_start_time to the time of the
\* release and keeps the two keys; such a release enters WAITING_TARGET when
\* both keys are up and keeps COMPOSE_PRESSED when one is still held
C27_WaitingTargetEntry ==
  [][/\ (state # "WAITING_TARGET" /\ state' = "WAITING_TARGET")
        => /\ state = "COMPOSE_PRESSED"
           /\ TriggerOrComposeRelease
           /\ current_trigger \notin pressed_keys'
           /\ current_compose \notin pressed_keys'
           /\ compose_start_time' = now
           /\ UNCHANGED <<current_trigger, current_compose, compose_shifted>>
     /\ (state = "COMPOSE_PRESSED" /\ TriggerOrComposeRelease)
        => state' = IF {current_trigger, current_compose} \cap pressed_keys'
                       = {}
                    THEN "WAITING_TARGET" ELSE "COMPOSE_PRESSED"]_vars

\* WAITING_TARGET was entered by the release of the compose key, after the
\* trigger's, one second after the trigger press
C27_Witness ==
  /\ state = "WAITING_TARGET"
  /\ last.op = "event"
  /\ last.from = "COMPOSE_PRESSED"
  /\ last.key = KEY_SEMICOLON
  /\ last.value = 0
  /\ pressed_keys = {}
  /\ now = 1
  /\ compose_start_time = 1
  /\ trigger_start_time = 0

\* the held modifiers and the key in the order Shift, Ctrl, Alt, key
CanonicalTarget(key_code, pressed, cfg) ==
  (IF pressed \cap Shifts # {} THEN <<KEY_LEFTSHIFT>> ELSE <<>>)
  \o (IF pressed \cap Ctrls # {} THEN <<KEY_LEFTCTRL>> ELSE <<>>)
  \o (IF pressed \cap Alts # {} /\ ~InList(key_code, cfg.trigger_keys_list)
      THEN <<KEY_LEFTALT>> ELSE <<>>)
  \o <<key_code>>

\* the table's tuples for the current trigger and compose key whose target
\* keys are these keys, in any order
ConfiguredFor(target_keys) ==
  {t \in DOMAIN config.sequences :
     /\ Len(t) = 3 + Len(target_keys)
     /\ SubSeq(t, 1, 3) = <<last.trigger, last.shifted, last.compose>>
     /\ {t[i] : i \in 4..Len(t)}
        = {target_keys[i] : i \in 1..Len(target_keys)}}

\* C28: at a target press in WAITING_TARGET the target part of the lookup
\* tuple lists the held modifiers in the order Shift, Ctrl, Alt, followed by
\* the key, and a configured combination of exactly the held modifiers and
\* the key is matched
C28_CanonicalTargetOrder ==
  TargetPress
  => /\ TargetKeys(last.key, pressed_keys, config)
        = CanonicalTarget(last.key, pressed_keys, config)
     /\ \A t \in ConfiguredFor(CanonicalTarget(last.key, pressed_keys, config)) :
          /\ last.log = "Sequence matched"
          /\ out = EmitOutput(config.sequences[t].output,
                              pressed_keys \cap Shifts # {})

\* what the code does: a combination is matched when the file names its
\* modifiers in the order Alt, Ctrl, Shift, which is the order of the lookup
C28_MatchedWhenWrittenInLookupOrder ==
  (/\ TargetPress
   /\ LookupKey(last.trigger, last.shifted, last.compose,
                TargetKeys(last.key, pressed_keys, config))
      \in DOMAIN config.sequences)
  => /\ last.log = "Sequence matched"
     /\ state = "IDLE"

\* 'o' was pressed with Ctrl and Shift held and matched "CTRL+SHIFT+o"
C28_MatchedCtrlShiftO ==
  /\ TargetPress
  /\ last.key = KEY_O
  /\ pressed_keys = {KEY_LEFTCTRL, KEY_LEFTSHIFT, KEY_O}
  /\ last.log = "Sequence matched"
  /\ out = EmitString(<<"Á">>)

\* the lookup tuple of the last target press, and the tuple without Shift
ShiftedLookup ==
  LookupKey(last.trigger, last.shifted, last.compose,
            TargetKeys(last.key, pressed_keys, config))

UnshiftedLookup ==
  LookupKey(last.trigger, last.shifted, last.compose,
            Unshifted(TargetKeys(last.key, pressed_keys, config)))

\* the output of tuple t was synthesized with target_shifted = true, a string
\* in upper case, the target press was not written and the state is IDLE
SynthesizedShifted(t) ==
  /\ out = EmitOutput(config.sequences[t].output, TRUE)
  /\ config.sequences[t].output.action_type = "string"
     => out = EmitString(UpperText(config.sequences[t].output.text))
  /\ \A i \in 1..Len(out) : out[i] # W(last.key, 1)
  /\ state = "IDLE"

\* C29: at a target press in WAITING_TARGET with Shift held, when the table
\* has no entry for the lookup with Shift and has one for the lookup without
\* it, that entry's output is synthesized with target_shifted = true (a
\* string in upper case), the target press is suppressed and the state is
\* IDLE; when the table has an entry for the lookup with Shift, that entry is
\* the one synthesized
C29_UnshiftedFallback ==
  (TargetPress /\ pressed_keys \cap Shifts # {})
  => /\ (ShiftedLookup \notin DOMAIN config.sequences
         /\ UnshiftedLookup \in DOMAIN config.sequences)
        => SynthesizedShifted(UnshiftedLookup)
     /\ ShiftedLookup \in DOMAIN config.sequences
        => SynthesizedShifted(ShiftedLookup)

\* Shift+o fell back to the entry for "o" and wrote 'Ö'
C29_Witness ==
  /\ TargetPress
  /\ last.key = KEY_O
  /\ pressed_keys = {KEY_RIGHTSHIFT, KEY_O}
  /\ ShiftedLookup \notin DOMAIN config.sequences
  /\ UnshiftedLookup \in DOMAIN config.sequences
  /\ out = EmitString(<<"Ö">>)
  /\ state = "IDLE"

\* C30: a repeat event (value 2) that arrives in a state other than IDLE is
\* dropped: nothing is written to the virtual device, and the state,
\* current_trigger, current_compose, compose_shifted, pressed_keys and both
\* timestamps stay as they were
C30_RepeatDropped ==
  [][(/\ state # "IDLE"
      /\ last'.op = "event"
      /\ last'.value = 2)
     => /\ out' = <<>>
        /\ vheld' = vheld
        /\ UNCHANGED <<state, current_trigger, current_compose,
                       compose_shifted, pressed_keys, compose_start_time,
                       trigger_start_time>>]_vars

\* 'a', held since before the trigger press, repeated in WAITING_TARGET one
\* second after the release of the compose key
C30_Witness ==
  /\ last.op = "event"
  /\ last.from = "WAITING_TARGET"
  /\ last.key = KEY_A
  /\ last.value = 2
  /\ state = "WAITING_TARGET"
  /\ pressed_keys = {KEY_A}
  /\ now > compose_start_time
  /\ out = <<>>

\* the last event was a press or release of a modifier key, other than the
\* trigger and the compose key of the attempt, in the given state
ModifierEventIn(s) ==
  /\ last.op = "event"
  /\ last.from = s
  /\ last.value \in {0, 1}
  /\ last.key \in ModifierKeys
  /\ last.key \notin {last.trigger, last.compose}

\* the event was ignored, a Shift release forwarded
IgnoredButShiftRelease ==
  /\ out = IF last.value = 0 /\ last.key \in Shifts
           THEN <<W(last.key, 0), SYN>> ELSE <<>>
  /\ state = last.from
  /\ current_trigger = last.trigger
  /\ current_compose = last.compose

\* C31: in COMPOSE_PRESSED and in WAITING_TARGET a modifier-key event is
\* ignored: it is not written to the virtual device and does not change the
\* state, except that a Shift release is written (once)
C31_ModifierEventsIgnored ==
  (ModifierEventIn("COMPOSE_PRESSED") \/ ModifierEventIn("WAITING_TARGET"))
  => IgnoredButShiftRelease

\* the same in WAITING_TARGET alone, where the branch returns: it holds
C31_IgnoredInWaitingTarget ==
  ModifierEventIn("WAITING_TARGET") => IgnoredButShiftRelease

\* Ctrl was pressed in WAITING_TARGET and swallowed
C31_CtrlSwallowedInWaitingTarget ==
  /\ ModifierEventIn("WAITING_TARGET")
  /\ last.key = KEY_LEFTCTRL
  /\ last.value = 1
  /\ out = <<>>
  /\ KEY_LEFTCTRL \notin vheld

\* C32: a reload that succeeds, from any state of the state machine, writes
\* the releases of current_trigger and of current_compose when they are set,
\* then those of LeftShift and RightShift, and leaves the state IDLE with
\* current_trigger and current_compose cleared and compose_shifted false
C32_ReloadForceReleases ==
  (last.op = "reload" /\ last.log = "ok")
  => /\ out = (IF last.trigger # None
               THEN <<W(last.trigger, 0), SYN>> ELSE <<>>)
              \o (IF last.compose # None
                  THEN <<W(last.compose, 0), SYN>> ELSE <<>>)
              \o <<W(KEY_LEFTSHIFT, 0), SYN, W(KEY_RIGHTSHIFT, 0), SYN>>
     /\ state = "IDLE"
     /\ current_trigger = None
     /\ current_compose = None
     /\ ~compose_shifted

\* a reload succeeded in COMPOSE_PRESSED with the trigger and the compose key
\* still held
C32_Witness ==
  /\ last.op = "reload"
  /\ last.log = "ok"
  /\ last.from = "COMPOSE_PRESSED"
  /\ last.trigger = KEY_LEFTALT
  /\ last.compose = KEY_SEMICOLON
  /\ pressed_keys = {KEY_LEFTALT, KEY_SEMICOLON}
  /\ Len(out) = 8
  /\ state = "IDLE"

\* the discovery filter: key events, no relative axes, no absolute X/Y or
\* multitouch axes, no gamepad buttons, no mouse buttons, at least 8 of the
\* 10 reference keys, and not the virtual device
DiscoveryFilter(dev) ==
  /\ Caps(dev).ev_key
  /\ ~Caps(dev).ev_rel
  /\ ~Caps(dev).abs_xy
  /\ ~Caps(dev).abs_mt
  /\ ~Caps(dev).gamepad
  /\ ~Caps(dev).mouse_buttons
  /\ Caps(dev).keyboard_keys >= 8
  /\ dev # VirtualKeyboard

C33_StartupUsesDiscoveryFilter ==
  \A dev \in proc.grabbed \ proc.created : DiscoveryFilter(dev)

\* the keyboard with a pointing stick was listed at startup and not grabbed
C33_TrackpointExcludedAtStartup ==
  /\ "trackpoint" \in proc.listed
  /\ proc.pc = "check_xdotool"
  /\ proc.grabbed = {"kbd1"}
  /\ proc.created = {}

\* every key event of the writes is followed at once by a syn mark
SynAfterEveryKey(writes) ==
  \A i \in 1..Len(writes) :
    writes[i].t = "key" => (i < Len(writes) /\ writes[i + 1] = SYN)

\* C34: every key event written to the virtual device is immediately
\* followed by a synchronization mark, on every path
C34_SynAfterEveryKey == SynAfterEveryKey(out)

\* the same on every path but the forwarding of a trigger press in IDLE
\* with Ctrl or Meta held: it holds
C34_SynAfterEveryKeyButTriggerShortcut ==
  ~(/\ last.op = "event"
    /\ last.from = "IDLE"
    /\ last.value = 1
    /\ InList(last.key, config.trigger_keys_list)
    /\ pressed_keys \cap OtherModifiers(last.key) # {})
  => SynAfterEveryKey(out)

(***************************************************************************)
(* The daemon and the applet's SequenceTester, given the same key events.  *)
(* The daemon starts on TargetDisk; the tester is loaded with the daemon's *)
(* tables while the daemon is IDLE with no key held, and from then on      *)
(* every key event goes to handle_event and to feed_key.  No timeout.      *)
(***************************************************************************)
MirrorKeyboard == TargetKeyboard \cup {KEY_ESC}

\* SequenceTester.load: the tables are cleared and filled, _reset_state
LoadTester ==
  /\ proc = ProcLoop
  /\ running
  /\ ~tester.loaded
  /\ state = "IDLE"
  /\ pressed_keys = {}
  /\ tester' = [ResetState(tester) EXCEPT !.loaded = TRUE]
  /\ last' = LastRun("tester", None, 0, Machine, "")
  /\ UNCHANGED <<disk, test_mode_file, running, config, valid_compose_keys,
                 state, pressed_keys, current_trigger, current_compose,
                 compose_shifted, compose_start_time, trigger_start_time,
                 now, out, vheld, leaked, shift_after, proc, held_on>>

NextMirror ==
  \/ Startup
  \/ LoadTester
  \/ \E key_code \in MirrorKeyboard, value \in {0, 1, 2} :
        HandleEvent(key_code, value)

SpecMirror == InitDisk(TargetDisk) /\ [][NextMirror]_vars

\* the last key event went to the daemon and to the tester
FedBoth == tester.loaded /\ last.op = "event"

\* C35: SequenceTester mirrors the daemon: after every key event it is in
\* the daemon's state, it reports "matched" exactly when the daemon
\* synthesizes an output, with the same table entry, and "no_match"
\* exactly when the daemon replays
C35_TesterMirrorsDaemon ==
  FedBoth =>
    /\ tester.state = state
    /\ tester.status = "matched" <=> last.log = "Sequence matched"
    /\ tester.status = "matched"
       => out = EmitOutput(tester.output, pressed_keys \cap Shifts # {})
    /\ tester.status = "no_match" <=> last.log = "No match - passing through"

\* the tester is in the daemon's state after every event, and holds the
\* daemon's trigger, compose key and pressed keys: it holds
C35_TesterInDaemonState ==
  FedBoth =>
    /\ tester.state = state
    /\ tester.trigger = current_trigger
    /\ tester.compose = current_compose
    /\ tester.compose_shifted = compose_shifted
    /\ tester.pressed = pressed_keys

\* the tester reports a match although the daemon replayed
C35_MatchedButReplayed ==
  /\ FedBoth
  /\ tester.status = "matched"
  /\ last.log = "No match - passing through"

\* C36: no stuck keys: once every physical key has been released and the
\* state machine is IDLE, no key is held on the virtual device
C36_NoStuckKeys == (pressed_keys = {} /\ state = "IDLE") => vheld = {}

\* the number of copies of the key event <<key_code, value>> among the writes
RECURSIVE Copies(_, _, _)
Copies(ws, key_code, value) ==
  IF ws = <<>> THEN 0
  ELSE (IF Head(ws) = W(key_code, value) THEN 1 ELSE 0)
       + Copies(Tail(ws), key_code, value)

\* C37: a single physical key event is forwarded at most once: handle_event
\* writes at most one copy of the event's own (key code, value) pair
C37_ForwardedAtMostOnce ==
  last.op = "event" => Copies(out, last.key, last.value) <= 1

\* the same for every event but a Shift release in COMPOSE_PRESSED, the
\* replay of an attempt whose target is its compose key set aside: it holds
C37_AtMostOnceButShiftRelease ==
  (/\ last.op = "event"
   /\ ~(last.from = "COMPOSE_PRESSED" /\ last.value = 0 /\ last.key \in Shifts)
   /\ ~(last.from = "WAITING_TARGET" /\ last.key = last.compose))
  => Copies(out, last.key, last.value) <= 1

(***************************************************************************)
(* Several keyboards and their removal.  The daemon runs with both         *)
(* keyboards grabbed; each key event comes from one of them, and a read    *)
(* of an unplugged keyboard fails with OSError, upon which run() drops     *)
(* the device.  The loop calls check_timeout at the top of every           *)
(* iteration and select() returns at the deadline at the latest: a due     *)
(* timeout is handled and time passes, which the fairness conditions say.  *)
(***************************************************************************)
UnplugKeys == {KEY_LEFTALT, KEY_SEMICOLON, KEY_A}

\* the keys down on the keyboard dev
HeldOn(dev) == {h[2] : h \in {x \in held_on : x[1] = dev}}

\* the keys down on at least one grabbed keyboard
HeldOnGrabbed == UNION {HeldOn(dev) : dev \in proc.grabbed}

InitUnplug ==
  /\ disk = StartDisk
  /\ test_mode_file = FALSE
  /\ running = TRUE
  /\ config = LoadConfig(EmptyConfig, StartDisk).config
  /\ valid_compose_keys = ValidComposeKeys(config.sequences)
  /\ state = "IDLE"
  /\ pressed_keys = {}
  /\ current_trigger = None
  /\ current_compose = None
  /\ compose_shifted = FALSE
  /\ compose_start_time = 0
  /\ trigger_start_time = 0
  /\ now = 0
  /\ out = <<>>
  /\ vheld = {}
  /\ last = [op |-> "init", key |-> None, value |-> 0, from |-> "IDLE",
             trigger |-> None, compose |-> None, shifted |-> FALSE,
             marker |-> FALSE, config |-> EmptyConfig, log |-> ""]
  /\ leaked = {}
  /\ shift_after = {}
  /\ proc = Process("loop", Keyboards, Keyboards, TRUE, TRUE, NoFd, Keyboards)
  /\ tester = NewTester
  /\ held_on = {}

\* run(): "for event in device.read(): self.handle_event(event)", the
\* event being a press or a release of a key of the keyboard dev
DeviceEvent(dev, key_code, value) ==
  /\ running
  /\ dev \in proc.grabbed
  /\ IF value = 1
     THEN key_code \notin HeldOn(dev) /\ Cardinality(held_on) < MaxPressed
     ELSE key_code \in HeldOn(dev)
  /\ held_on' = IF value = 1 THEN held_on \cup {<<dev, key_code>>}
                ELSE held_on \ {<<dev, key_code>>}
  /\ handle_event(key_code, value)

\* run(): device.read() raises OSError, "Device disconnected - removing
\* from monitoring"; the keys that were down on it stay as they were
Unplug(dev) ==
  /\ running
  /\ dev \in proc.grabbed
  /\ proc' = [proc EXCEPT !.devices = @ \ {dev}, !.grabbed = @ \ {dev},
                          !.watch_fds = @ \ {dev}]
  /\ last' = LastRun("unplug", None, 0, Machine, dev)
  /\ UNCHANGED <<disk, test_mode_file, running, config, valid_compose_keys,
                 state, pressed_keys, current_trigger, current_compose,
                 compose_shifted, compose_start_time, trigger_start_time,
                 now, out, vheld, leaked, shift_after, tester, held_on>>

\* time passes up to the next deadline, where select() returns and the
\* loop calls check_timeout.  COMPOSE_PRESSED has no deadline and nothing
\* reads the clock there but the entry to WAITING_TARGET, which stores it:
\* the loop goes on iterating and the clock goes round
Elapse ==
  /\ state # "IDLE"
  /\ ~TimeoutDue(Machine)
  /\ now' = IF state = "COMPOSE_PRESSED" THEN (now + 1) % (MaxTime + 1)
            ELSE now + 1
  /\ UNCHANGED <<disk, test_mode_file, running, config, valid_compose_keys,
                 state, pressed_keys, current_trigger, current_compose,
                 compose_shifted, compose_start_time, trigger_start_time,
                 out, vheld, last, leaked, shift_after, proc, tester, held_on>>

NextUnplug ==
  \/ \E dev \in Keyboards, key_code \in UnplugKeys, value \in {0, 1} :
        DeviceEvent(dev, key_code, value)
  \/ \E dev \in Keyboards : Unplug(dev)
  \/ CheckTimeout
  \/ Elapse

SpecUnplug ==
  InitUnplug /\ [][NextUnplug]_vars /\ WF_vars(CheckTimeout) /\ WF_vars(Elapse)

\* no keyboard is left to send a key event
NoKeyboardLeft == proc.grabbed = {}

\* C38: every started compose attempt ends: from any non-IDLE state, if no
\* further key events arrive, the timeout check eventually returns the
\* state machine to IDLE
C38_AttemptEnds == (state # "IDLE" /\ NoKeyboardLeft) ~> state = "IDLE"

\* the same from TRIGGER_PRESSED and WAITING_TARGET, the states
\* check_timeout has a branch for: it holds
C38_TimedAttemptEnds ==
  (state \in {"TRIGGER_PRESSED", "WAITING_TARGET"} /\ NoKeyboardLeft)
    ~> state = "IDLE"

\* the keyboards are gone while the compose key is held: time has passed
\* and no timeout is due
C38_StuckInComposePressed ==
  /\ state = "COMPOSE_PRESSED"
  /\ NoKeyboardLeft
  /\ now >= timeout_sec
  /\ ~ENABLED CheckTimeout

\* C39: pressed_keys always equals the set of key codes currently held on at
\* least one grabbed keyboard, for every interleaving of press and release
\* events from several keyboards and across device removal
C39_PressedKeysAreHeldKeys == pressed_keys = HeldOnGrabbed

\* every key of pressed_keys is down on a keyboard, or was when the
\* keyboard was removed: it holds
C39_PressedKeysWereHeld == pressed_keys \subseteq {h[2] : h \in held_on}

\* a key still held on one keyboard has left pressed_keys when it was
\* released on the other
C39_ReleasedOnOtherKeyboard ==
  /\ last.op = "event"
  /\ last.value = 0
  /\ last.key \in HeldOnGrabbed
  /\ last.key \notin pressed_keys

\* the keys held only on the removed keyboard are still in pressed_keys
C39_KeptAfterRemoval ==
  /\ last.op = "unplug"
  /\ pressed_keys \ HeldOnGrabbed # {}

\* C40: state-machine consistency in every state reachable by key events,
\* ESC and timeouts: IDLE implies that current_trigger and current_compose
\* are unset and compose_shifted is false; a state other than IDLE implies
\* that current_trigger is a configured trigger key; COMPOSE_PRESSED and
\* WAITING_TARGET imply that current_compose is in valid_compose_keys and
\* differs from current_trigger
C40_StateConsistency ==
  /\ state = "IDLE"
     => /\ current_trigger = None
        /\ current_compose = None
        /\ ~compose_shifted
  /\ state # "IDLE" => InList(current_trigger, config.trigger_keys_list)
  /\ state \in {"COMPOSE_PRESSED", "WAITING_TARGET"}
     => /\ current_compose \in valid_compose_keys
        /\ current_compose # current_trigger

\* an attempt with a shifted compose key has timed out in WAITING_TARGET
C40_ShiftedAttemptTimedOut ==
  /\ last.op = "timeout"
  /\ last.from = "WAITING_TARGET"
  /\ last.shifted
  /\ last.compose \in valid_compose_keys
  /\ state = "IDLE"

=============================================================================
